---- MODULE Spec2Model ----
(***************************************************************************)
(* Model of the wenotify analytics engine and of the record store it       *)
(* reads: crime reports, locations and users (wenotify/controllers), the   *)
(* request handlers of AnalyticsController, LocationsController,           *)
(* CrimeReportsController and UsersController.  The statistics and the     *)
(* dashboard handlers are also modelled one store query at a time, with    *)
(* the request in flight kept in the variable request.                     *)
(*                                                                         *)
(* Numbers.  Timestamps are whole days.  A percentage is kept in           *)
(* hundredths of a percent (33.33 is 3333), so round(x, 2) is a rounding   *)
(* to an integer; a distance is kept in metres and a reported distance_km  *)
(* in hundredths of a kilometre.                                           *)
(***************************************************************************)
EXTENDS Integers, Sequences, FiniteSets, TLC

VARIABLES reports, locations, users, now, response, input, request

vars == <<reports, locations, users, now, response, input, request>>

(***************************************************************************)
(* Bounds of the model.                                                    *)
(***************************************************************************)
MaxReports == 2
MaxStatReports == 3
MaxDay == 31
TickDays == 31

(***************************************************************************)
(* Values.                                                                 *)
(***************************************************************************)
\* A column or an argument without a value: a number, a string.
NULL == -1
None == "None"

NoResponse == [op |-> "none"]

LawEnforcement == {"police_officer", "admin"}

\* The callers of the model: the citizen who files the reports, another
\* citizen, an officer and an analyst.
Reporter == [id |-> 1, role |-> "citizen"]
Callers ==
    { Reporter,
      [id |-> 2, role |-> "citizen"],
      [id |-> 3, role |-> "police_officer"],
      [id |-> 4, role |-> "analyst"] }

\* Payloads of create_crime_report; location 9 names no row of the store.
ReportInputs ==
    { [category |-> "theft", severity |-> "medium", location_id |-> 1],
      [category |-> "assault", severity |-> "high", location_id |-> 1],
      [category |-> "theft", severity |-> "high", location_id |-> 2],
      [category |-> "theft", severity |-> "medium", location_id |-> 9] }

Categories == {p.category : p \in ReportInputs}

StatusInputs == {"resolved"}

Officer == [id |-> 3, role |-> "police_officer"]
Admin == [id |-> 5, role |-> "admin"]
Dispatcher == [id |-> 6, role |-> "dispatcher"]

\* Payloads of create_location: a position on the equator, in metres.
LocationInputs ==
    { [pos |-> 126, city |-> "Nairobi", county |-> "Nairobi", sub_county |-> None],
      [pos |-> 131, city |-> None, county |-> "Nairobi", sub_county |-> "Westlands"],
      [pos |-> 900, city |-> None, county |-> "Kiambu", sub_county |-> None] }

\* The locations the reports refer to: position on the equator in metres
\* east of the origin, and the administrative names.
SeedLocations ==
    (1 :> [pos |-> 0, city |-> "Nairobi", county |-> "Nairobi",
           sub_county |-> "Westlands", is_active |-> TRUE, deleted_at |-> NULL])
    @@
    (2 :> [pos |-> 1200, city |-> None, county |-> "Kiambu",
           sub_county |-> None, is_active |-> TRUE, deleted_at |-> NULL])

\* The accounts of the callers; every account is created active.
SeedUsers ==
    [ id \in 1..6 |->
        [email |-> id,
         role |-> CASE id \in {1, 2} -> "citizen"
                    [] id = 3 -> "police_officer"
                    [] id = 4 -> "analyst"
                    [] id = 5 -> "admin"
                    [] OTHER -> "dispatcher",
         is_active |-> TRUE, deleted_at |-> NULL] ]

\* No analytics request is between two of its reads of the store.
NoRequest == [op |-> "none"]

(***************************************************************************)
(* Arithmetic helpers.                                                     *)
(***************************************************************************)
Abs(x) == IF x < 0 THEN -x ELSE x

\* n / d rounded to the nearest integer, ties to the even one (Python round).
RoundHalfEven(n, d) ==
    LET q == n \div d
        r == n - q * d
    IN  IF 2 * r < d THEN q
        ELSE IF 2 * r > d THEN q + 1
        ELSE IF q % 2 = 0 THEN q ELSE q + 1

RECURSIVE SumOver(_, _)
\* The sum of f[x] over the finite set S.
SumOver(S, f) ==
    IF S = {} THEN 0
    ELSE LET x == CHOOSE y \in S : TRUE
         IN  f[x] + SumOver(S \ {x}, f)

\* The sequences that list every element of the finite set S once.
Orderings(S) ==
    { s \in [1..Cardinality(S) -> S] : \A x \in S : \E i \in DOMAIN s : s[i] = x }

(***************************************************************************)
(* The record store.                                                       *)
(***************************************************************************)
ReportIds == DOMAIN reports

Init ==
    /\ reports = <<>>
    /\ locations = SeedLocations
    /\ users = SeedUsers
    /\ request = NoRequest
    /\ now = 0
    /\ response = NoResponse
    /\ input = NULL

\* The clock advances between requests.
Tick ==
    /\ now + TickDays <= MaxDay
    /\ now' = now + TickDays
    /\ response' = NoResponse
    /\ UNCHANGED <<reports, locations, input, users, request>>

(***************************************************************************)
(* CrimeReportsController.                                                 *)
(***************************************************************************)
create_crime_report(p) ==
    /\ IF p.location_id \notin DOMAIN locations
       THEN /\ response' = [op |-> "create_crime_report", status |-> 404]
            /\ UNCHANGED reports
       ELSE /\ reports' = Append(reports,
                 [category |-> p.category, severity |-> p.severity,
                  location_id |-> p.location_id, reporter_id |-> Reporter.id,
                  status |-> "submitted", priority_score |-> NULL,
                  created_at |-> now,
                  updated_at |-> now, deleted_at |-> NULL])
            /\ response' = [op |-> "create_crime_report", status |-> 201]
    /\ UNCHANGED <<locations, now, input, users, request>>

update_report_status(id, s, user) ==
    /\ IF user.role \notin LawEnforcement
       THEN /\ response' = [op |-> "update_report_status", status |-> 403]
            /\ UNCHANGED reports
       ELSE IF id \notin ReportIds
       THEN /\ response' = [op |-> "update_report_status", status |-> 404]
            /\ UNCHANGED reports
       ELSE /\ reports' = [reports EXCEPT ![id].status = s,
                                          ![id].updated_at = now]
            /\ response' = [op |-> "update_report_status", status |-> 200]
    /\ UNCHANGED <<locations, now, input, users, request>>

\* The update of the model sets the priority score, the one field of the
\* payload the analytics read.
update_crime_report(id, priority_score, user) ==
    /\ IF id \notin ReportIds
       THEN /\ response' = [op |-> "update_crime_report", status |-> 404]
            /\ UNCHANGED reports
       ELSE IF user.role = "citizen" /\ reports[id].reporter_id # user.id
       THEN /\ response' = [op |-> "update_crime_report", status |-> 403]
            /\ UNCHANGED reports
       ELSE /\ reports' = [reports EXCEPT ![id].priority_score = priority_score,
                                          ![id].updated_at = now]
            /\ response' = [op |-> "update_crime_report", status |-> 200]
    /\ UNCHANGED <<locations, users, now, input, request>>

delete_crime_report(id, user) ==
    /\ IF id \notin ReportIds
       THEN /\ response' = [op |-> "delete_crime_report", status |-> 404]
            /\ UNCHANGED reports
       ELSE IF user.role = "citizen" /\ reports[id].reporter_id # user.id
       THEN /\ response' = [op |-> "delete_crime_report", status |-> 403]
            /\ UNCHANGED reports
       ELSE /\ reports' = [reports EXCEPT ![id].deleted_at = now,
                                          ![id].updated_at = now]
            /\ response' = [op |-> "delete_crime_report", status |-> 200]
    /\ UNCHANGED <<locations, now, input, users, request>>

(***************************************************************************)
(* UsersController.                                                        *)
(***************************************************************************)
UserIds == DOMAIN users

register_user(email, role) ==
    /\ IF \E u \in UserIds : users[u].email = email
       THEN /\ response' = [op |-> "register_user", status |-> 400]
            /\ UNCHANGED users
       ELSE /\ users' = Append(users, [email |-> email, role |-> role,
                                       is_active |-> TRUE, deleted_at |-> NULL])
            /\ response' = [op |-> "register_user", status |-> 201]
    /\ UNCHANGED <<reports, locations, now, input, request>>

\* The account is stamped as deleted; its is_active flag is left as it is.
deactivate_account(user) ==
    /\ users' = [u \in UserIds |->
                   IF u = user.id THEN [users[u] EXCEPT !.deleted_at = now]
                   ELSE users[u]]
    /\ response' = [op |-> "deactivate_account", status |-> 200]
    /\ UNCHANGED <<reports, locations, now, input, request>>

(***************************************************************************)
(* LocationController                                                      *)
(***************************************************************************)
LocationIds == DOMAIN locations

create_location(p, user) ==
    /\ IF user.role \notin {"admin", "police_officer"}
       THEN /\ response' = [op |-> "create_location", status |-> 403]
            /\ UNCHANGED locations
       ELSE LET id == Cardinality(LocationIds) + 1
            IN  /\ locations' = locations @@
                     (id :> [pos |-> p.pos, city |-> p.city, county |-> p.county,
                             sub_county |-> p.sub_county, is_active |-> TRUE,
                             deleted_at |-> NULL])
                /\ response' = [op |-> "create_location", status |-> 201, id |-> id]
    /\ UNCHANGED <<reports, now, input, users, request>>

\* update_location with a new longitude: the row keeps every other column;
\* LocationUpdate has no field for is_active or deleted_at.
update_location(id, pos, user) ==
    /\ IF user.role \notin {"admin", "police_officer"}
       THEN /\ response' = [op |-> "update_location", status |-> 403]
            /\ UNCHANGED locations
       ELSE IF id \notin LocationIds
       THEN /\ response' = [op |-> "update_location", status |-> 404]
            /\ UNCHANGED locations
       ELSE /\ locations' = [locations EXCEPT ![id].pos = pos]
            /\ response' = [op |-> "update_location", status |-> 200, id |-> id]
    /\ UNCHANGED <<reports, now, input, users, request>>

\* A deletion that stamps deleted_at and leaves the row active.
delete_location_stamp_only(id, user) ==
    /\ IF user.role # "admin"
       THEN /\ response' = [op |-> "delete_location", status |-> 403]
            /\ UNCHANGED locations
       ELSE IF id \notin LocationIds
       THEN /\ response' = [op |-> "delete_location", status |-> 404]
            /\ UNCHANGED locations
       ELSE /\ locations' = [locations EXCEPT ![id].deleted_at = now]
            /\ response' = [op |-> "delete_location", status |-> 200, id |-> id]
    /\ UNCHANGED <<reports, now, input, users, request>>

delete_location(id, user) ==
    /\ IF user.role # "admin"
       THEN /\ response' = [op |-> "delete_location", status |-> 403]
            /\ UNCHANGED locations
       ELSE IF id \notin LocationIds
       THEN /\ response' = [op |-> "delete_location", status |-> 404]
            /\ UNCHANGED locations
       ELSE /\ locations' = [locations EXCEPT ![id].is_active = FALSE,
                                              ![id].deleted_at = now]
            /\ response' = [op |-> "delete_location", status |-> 200, id |-> id]
    /\ UNCHANGED <<reports, now, input, users, request>>

\* The great-circle distance in metres between two points of the equator:
\* acos(cos(difference of longitudes)) * 6371 km is the arc between them.
distance_formula(pos, l) == Abs(locations[l].pos - pos)

\* distance_km = round(distance, 2), in hundredths of a kilometre.
distance_km(metres) == RoundHalfEven(metres, 10)

\* The query point is on the equator at `pos` metres; radius in metres.
get_nearby_locations(pos, radius, user) ==
    /\ LET found == {l \in LocationIds :
                        /\ locations[l].is_active
                        /\ distance_formula(pos, l) <= radius}
       IN  \E rows \in Orderings(found) :
              /\ \A a, b \in DOMAIN rows : a < b =>
                    distance_formula(pos, rows[a]) <= distance_formula(pos, rows[b])
              /\ response' =
                    [op |-> "get_nearby_locations", status |-> 200,
                     position |-> pos, radius |-> radius,
                     nearby_locations |->
                        [k \in DOMAIN rows |->
                            [id |-> rows[k],
                             distance_km |-> distance_km(distance_formula(pos, rows[k]))]]]
    /\ UNCHANGED <<reports, locations, now, input, users, request>>

(***************************************************************************)
(* AnalyticsController: shared pieces.                                     *)
(***************************************************************************)
\* The HTTPException of _check_analytics_permission: raised before the
\* handler issues a query.
Forbidden(name) == [op |-> name, status |-> 403, reads |-> 0]

\* A check that turns away citizens only.
check_analytics_permission_staff(user) == user.role # "citizen"

\* _check_analytics_permission
check_analytics_permission(user) == user.role \in LawEnforcement

\* A percentage that is cut after two decimals instead of rounded.
PercentageTruncated(count, total) ==
    IF total > 0 THEN (count * 10000) \div total ELSE 0

\* count / total * 100 rounded to two decimals, 0 when the total is 0; in
\* hundredths of a percent.
Percentage(count, total) ==
    IF total > 0 THEN RoundHalfEven(count * 10000, total) ELSE 0

\* func.coalesce(Location.city, Location.county, 'Unknown')
location_name(l) ==
    IF locations[l].city # None THEN locations[l].city
    ELSE IF locations[l].county # None THEN locations[l].county
    ELSE "Unknown"

\* Rows of SELECT key, count(id) ... WHERE id IN S GROUP BY key.
\* key maps a report id to its group.
GroupRows(S, key) ==
    { [key |-> k, count |-> Cardinality({i \in S : key[i] = k})] :
        k \in {key[i] : i \in S} }

\* The orders in which ORDER BY count DESC may return the rows R: ties come
\* back in an order the store chooses.
OrderByCountDesc(R) ==
    { s \in Orderings(R) :
        \A i, j \in DOMAIN s : i < j => s[i].count >= s[j].count }

\* A join that loses the reports of a location without a city.
JoinLocationWithCity(S) ==
    {i \in S : /\ reports[i].location_id \in DOMAIN locations
               /\ locations[reports[i].location_id].city # None}

\* CrimeReport JOIN Location: the reports of S whose location row exists.
JoinLocation(S) == {i \in S : reports[i].location_id \in DOMAIN locations}

(***************************************************************************)
(* get_crime_statistics                                                    *)
(***************************************************************************)
\* Conditions without the lower end of the window.
StatsConditionsNoStart(start_date, end_date, location_id, crime_type) ==
    { i \in ReportIds :
        /\ reports[i].created_at <= end_date
        /\ reports[i].deleted_at = NULL
        /\ (location_id # NULL => reports[i].location_id = location_id)
        /\ (crime_type # None => reports[i].category = crime_type) }

StatsConditions(start_date, end_date, location_id, crime_type) ==
    { i \in ReportIds :
        /\ reports[i].created_at >= start_date
        /\ reports[i].created_at <= end_date
        /\ reports[i].deleted_at = NULL
        /\ (location_id # NULL => reports[i].location_id = location_id)
        /\ (crime_type # None => reports[i].category = crime_type) }

StatRows(S, key, total) ==
    { [key |-> r.key, count |-> r.count,
       percentage |-> Percentage(r.count, total)] : r \in GroupRows(S, key) }

\* avg(updated_at - created_at) over the resolved and closed reports of S,
\* in hundredths of an hour; 0 when there is none or the average is 0.
AverageResponseHours(S) ==
    LET done == {i \in S : reports[i].status \in {"resolved", "closed"}}
        days == SumOver(done, [i \in done |->
                    reports[i].updated_at - reports[i].created_at])
    IN  IF done = {} \/ days = 0 THEN 0
        ELSE RoundHalfEven(days * 2400, Cardinality(done))

\* A default window of a week.
default_start_date_week(start_arg, end_date) ==
    IF start_arg = NULL THEN end_date - 7 ELSE start_arg

\* if not start_date: start_date = end_date - timedelta(days=30)
default_start_date(start_arg, end_date) ==
    IF start_arg = NULL THEN end_date - 30 ELSE start_arg

get_crime_statistics(start_arg, end_arg, location_id, crime_type, user) ==
    /\ IF ~check_analytics_permission(user)
       THEN response' = Forbidden("get_crime_statistics")
       ELSE LET end_date == IF end_arg = NULL THEN now ELSE end_arg
                start_date == default_start_date(start_arg, end_date)
                S == StatsConditions(start_date, end_date, location_id,
                                     crime_type)
                total_reports == Cardinality(S)
                by_location == { [key |-> r.key, name |-> location_name(r.key),
                                  count |-> r.count,
                                  percentage |-> Percentage(r.count, total_reports)] :
                                 r \in GroupRows(JoinLocation(S),
                                         [i \in ReportIds |-> reports[i].location_id]) }
            IN  \E ordered \in OrderByCountDesc(by_location) :
                  response' =
                    [op |-> "get_crime_statistics", status |-> 200,
                     total_crimes |-> total_reports,
                     start_date |-> start_date, end_date |-> end_date,
                     stats_by_type |->
                        StatRows(S, [i \in ReportIds |-> reports[i].category], total_reports),
                     stats_by_location |-> ordered,
                     stats_by_severity |->
                        StatRows(S, [i \in ReportIds |-> reports[i].severity], total_reports),
                     stats_by_status |->
                        StatRows(S, [i \in ReportIds |-> reports[i].status], total_reports),
                     average_response_time_hours |-> AverageResponseHours(S)]
    /\ UNCHANGED <<reports, locations, now, input, users, request>>

(***************************************************************************)
(* get_crime_statistics, one store query at a time: each await of the      *)
(* handler is a step, and the request in flight keeps what the queries     *)
(* before it returned.  Writes of other requests commit between the steps. *)
(***************************************************************************)
StatsInFlight(pc) ==
    request.op = "get_crime_statistics" /\ request.pc = pc

\* The conditions of the request in flight, evaluated on the store as it is.
RequestConditions ==
    StatsConditions(request.start_date, request.end_date, request.location_id,
                    request.crime_type)

\* The permission check, the window, and the query of the total.
total_reports_stmt(start_arg, end_arg, location_id, crime_type, user) ==
    /\ request = NoRequest
    /\ IF ~check_analytics_permission(user)
       THEN /\ response' = Forbidden("get_crime_statistics")
            /\ UNCHANGED request
       ELSE LET end_date == IF end_arg = NULL THEN now ELSE end_arg
                start_date == default_start_date(start_arg, end_date)
            IN  /\ request' =
                     [op |-> "get_crime_statistics", pc |-> "type_stats_stmt",
                      start_date |-> start_date, end_date |-> end_date,
                      location_id |-> location_id, crime_type |-> crime_type,
                      total_reports |-> Cardinality(
                          StatsConditions(start_date, end_date, location_id,
                                          crime_type)),
                      stats_by_type |-> {}, stats_by_location |-> <<>>,
                      stats_by_severity |-> {}, stats_by_status |-> {}]
                /\ response' = NoResponse
    /\ UNCHANGED <<reports, locations, users, now, input>>

type_stats_stmt ==
    /\ StatsInFlight("type_stats_stmt")
    /\ request' = [request EXCEPT
          !.pc = "location_stats_stmt",
          !.stats_by_type =
              StatRows(RequestConditions,
                       [i \in ReportIds |-> reports[i].category],
                       request.total_reports)]
    /\ UNCHANGED <<reports, locations, users, now, input, response>>

location_stats_stmt ==
    /\ StatsInFlight("location_stats_stmt")
    /\ LET by_location ==
              { [key |-> r.key, name |-> location_name(r.key),
                 count |-> r.count,
                 percentage |-> Percentage(r.count, request.total_reports)] :
                r \in GroupRows(JoinLocation(RequestConditions),
                                [i \in ReportIds |-> reports[i].location_id]) }
       IN  \E ordered \in OrderByCountDesc(by_location) :
              request' = [request EXCEPT !.pc = "severity_stats_stmt",
                                         !.stats_by_location = ordered]
    /\ UNCHANGED <<reports, locations, users, now, input, response>>

severity_stats_stmt ==
    /\ StatsInFlight("severity_stats_stmt")
    /\ request' = [request EXCEPT
          !.pc = "status_stats_stmt",
          !.stats_by_severity =
              StatRows(RequestConditions,
                       [i \in ReportIds |-> reports[i].severity],
                       request.total_reports)]
    /\ UNCHANGED <<reports, locations, users, now, input, response>>

status_stats_stmt ==
    /\ StatsInFlight("status_stats_stmt")
    /\ request' = [request EXCEPT
          !.pc = "response_time_stmt",
          !.stats_by_status =
              StatRows(RequestConditions,
                       [i \in ReportIds |-> reports[i].status],
                       request.total_reports)]
    /\ UNCHANGED <<reports, locations, users, now, input, response>>

\* The last query, and the response built from all six.
response_time_stmt ==
    /\ StatsInFlight("response_time_stmt")
    /\ response' =
          [op |-> "get_crime_statistics", status |-> 200,
           total_crimes |-> request.total_reports,
           start_date |-> request.start_date, end_date |-> request.end_date,
           stats_by_type |-> request.stats_by_type,
           stats_by_location |-> request.stats_by_location,
           stats_by_severity |-> request.stats_by_severity,
           stats_by_status |-> request.stats_by_status,
           average_response_time_hours |-> AverageResponseHours(RequestConditions)]
    /\ request' = NoRequest
    /\ UNCHANGED <<reports, locations, users, now, input>>

(***************************************************************************)
(* get_trend_analysis                                                      *)
(***************************************************************************)
\* The calendar: day 0 is Monday 1 January 2024 and the dates of the model
\* lie in that year.
MonthStarts == <<0, 31, 60, 91, 121, 152, 182, 213, 244, 274, 305, 335>>

MonthOf(d) == CHOOSE m \in 1..12 :
    /\ MonthStarts[m] <= d
    /\ (m < 12 => d < MonthStarts[m + 1])

\* func.date_trunc(unit, created_at)
date_trunc(unit, d) ==
    CASE unit = "day" -> d
      [] unit = "week" -> d - (d % 7)
      [] unit = "month" -> MonthStarts[MonthOf(d)]
      [] unit = "year" -> 0

\* row.period.strftime(...): "%Y-%m-%d" for daily, "%Y-%m" for monthly and
\* "%Y" for every other period.
PeriodLabel(period, d) ==
    IF period = "daily" THEN <<2024, MonthOf(d), d - MonthStarts[MonthOf(d)] + 1>>
    ELSE IF period = "monthly" THEN <<2024, MonthOf(d)>>
    ELSE <<2024>>

\* An optional number: None is the empty tuple.
NoChange == <<>>
Some(x) == <<x>>

\* The change as a fraction of the previous count, not as a percentage.
PercentageChangeAsFraction(count, previous) ==
    RoundHalfEven((count - previous) * 100, previous)

\* round((count - previous) / previous * 100, 2), in hundredths of a percent
PercentageChange(count, previous) ==
    RoundHalfEven((count - previous) * 10000, previous)

\* A loop that reports a change of 0 after an empty bucket.
TrendPointsZeroChange(rows, period) ==
    [ i \in DOMAIN rows |->
        [period |-> PeriodLabel(period, rows[i].period),
         count |-> rows[i].count,
         percentage_change |->
            IF i = 1 THEN NoChange
            ELSE IF rows[i - 1].count > 0
            THEN Some(PercentageChange(rows[i].count, rows[i - 1].count))
            ELSE Some(0)] ]

\* The loop over the rows of the trend query: one point per row, compared
\* with the row before it.
TrendPoints(rows, period) ==
    [ i \in DOMAIN rows |->
        LET previous_count == IF i = 1 THEN NULL ELSE rows[i - 1].count
        IN  [period |-> PeriodLabel(period, rows[i].period),
             count |-> rows[i].count,
             percentage_change |->
                IF previous_count # NULL /\ previous_count > 0
                THEN Some(PercentageChange(rows[i].count, previous_count))
                ELSE NoChange] ]

\* The overall trend: first bucket against last bucket.
total_change_percentage(trend_data) ==
    IF Len(trend_data) >= 2 /\ trend_data[1].count > 0
    THEN PercentageChange(trend_data[Len(trend_data)].count, trend_data[1].count)
    ELSE 0

\* A direction whose thresholds include 5 and -5.
trend_direction_inclusive(trend_data) ==
    IF Len(trend_data) >= 2 /\ trend_data[1].count > 0
    THEN IF total_change_percentage(trend_data) >= 500 THEN "increasing"
         ELSE IF total_change_percentage(trend_data) <= -500 THEN "decreasing"
         ELSE "stable"
    ELSE "stable"

trend_direction(trend_data) ==
    IF Len(trend_data) >= 2 /\ trend_data[1].count > 0
    THEN IF total_change_percentage(trend_data) > 500 THEN "increasing"
         ELSE IF total_change_percentage(trend_data) < -500 THEN "decreasing"
         ELSE "stable"
    ELSE "stable"

TrendResponse(rows, period) ==
    LET trend_data == TrendPoints(rows, period)
    IN  [op |-> "get_trend_analysis", status |-> 200, period |-> period,
         trends |-> trend_data,
         total_change_percentage |-> total_change_percentage(trend_data),
         trend_direction |-> trend_direction(trend_data)]

\* The period of a request: the unit of its buckets and its look-back window.
PeriodUnit(period) ==
    CASE period = "daily" -> "day"
      [] period = "weekly" -> "week"
      [] period = "monthly" -> "month"
      [] period = "yearly" -> "year"

PeriodDaysBack(period) ==
    CASE period = "daily" -> 30
      [] period = "weekly" -> 84
      [] period = "monthly" -> 365
      [] period = "yearly" -> 1095

ValidPeriods == {"daily", "weekly", "monthly", "yearly"}

\* The rows R, one per period, in ascending order of period.
OrderByPeriod(R) ==
    CHOOSE s \in Orderings(R) :
        \A i, j \in DOMAIN s : i < j => s[i].period < s[j].period

\* A query that returns a row for the current period also when no report
\* falls into it.
TrendQueryZeroFilled(period, crime_type, location_id) ==
    LET start_date == now - PeriodDaysBack(period)
        S == { i \in ReportIds :
                /\ reports[i].created_at >= start_date
                /\ reports[i].deleted_at = NULL
                /\ (crime_type # None => reports[i].category = crime_type)
                /\ (location_id # NULL => reports[i].location_id = location_id) }
        bucket == [i \in ReportIds |->
                    date_trunc(PeriodUnit(period), reports[i].created_at)]
        R == { [period |-> b, count |-> Cardinality({i \in S : bucket[i] = b})] :
               b \in {bucket[i] : i \in S}
                      \cup {date_trunc(PeriodUnit(period), now)} }
    IN  TrendResponse(OrderByPeriod(R), period) @@ [reads |-> 1]

\* The trend query and the response built from its rows.
TrendQuery(period, crime_type, location_id) ==
    LET start_date == now - PeriodDaysBack(period)
        S == { i \in ReportIds :
                /\ reports[i].created_at >= start_date
                /\ reports[i].deleted_at = NULL
                /\ (crime_type # None => reports[i].category = crime_type)
                /\ (location_id # NULL => reports[i].location_id = location_id) }
        bucket == [i \in ReportIds |->
                    date_trunc(PeriodUnit(period), reports[i].created_at)]
        R == { [period |-> r.key, count |-> r.count] : r \in GroupRows(S, bucket) }
    IN  TrendResponse(OrderByPeriod(R), period) @@ [reads |-> 1]

\* A controller that reads an unknown period as "monthly".
get_trend_analysis_fallback(period, crime_type, location_id, user) ==
    /\ IF ~check_analytics_permission(user)
       THEN response' = [op |-> "get_trend_analysis", status |-> 403,
                         period |-> period, reads |-> 0]
       ELSE IF period \notin ValidPeriods
       THEN response' = [TrendQuery("monthly", crime_type, location_id)
                            EXCEPT !.period = period]
       ELSE response' = TrendQuery(period, crime_type, location_id)
    /\ UNCHANGED <<reports, locations, now, input, users, request>>

\* The controller; reads counts the queries it issues against the store.
get_trend_analysis(period, crime_type, location_id, user) ==
    /\ IF ~check_analytics_permission(user)
       THEN response' = [op |-> "get_trend_analysis", status |-> 403,
                         period |-> period, reads |-> 0]
       ELSE IF period \notin ValidPeriods
       THEN response' = [op |-> "get_trend_analysis", status |-> 400,
                         period |-> period, reads |-> 0]
       ELSE response' = TrendQuery(period, crime_type, location_id)
    /\ UNCHANGED <<reports, locations, now, input, users, request>>

\* GET /trends: the period parameter is validated against the pattern
\* ^(daily|weekly|monthly|yearly)$ before the controller runs.
trends_endpoint(period, crime_type, location_id, user) ==
    IF period \notin ValidPeriods
    THEN /\ response' = [op |-> "get_trend_analysis", status |-> 422,
                          period |-> period, reads |-> 0]
         /\ UNCHANGED <<reports, locations, now, input, users, request>>
    ELSE get_trend_analysis(period, crime_type, location_id, user)

(***************************************************************************)
(* get_hotspot_analysis                                                    *)
(***************************************************************************)
\* A tiering whose chain tests the lowest threshold first.
risk_level_low_first(incident_count, min_incidents) ==
    IF 2 * incident_count >= 3 * min_incidents THEN "MEDIUM"
    ELSE IF incident_count >= min_incidents * 2 THEN "HIGH"
    ELSE IF incident_count >= min_incidents * 4 THEN "CRITICAL"
    ELSE "LOW"

\* The risk level of a hotspot; incident_count >= min_incidents * 1.5 is
\* 2 * incident_count >= 3 * min_incidents.
risk_level(incident_count, min_incidents) ==
    IF incident_count >= min_incidents * 4 THEN "CRITICAL"
    ELSE IF incident_count >= min_incidents * 2 THEN "HIGH"
    ELSE IF 2 * incident_count >= 3 * min_incidents THEN "MEDIUM"
    ELSE "LOW"

\* The grouped rows without the HAVING clause.
HotspotRowsNoHaving(min_incidents, days_back) ==
    LET start_date == now - days_back
        S == { i \in ReportIds : /\ reports[i].created_at >= start_date
                                 /\ reports[i].deleted_at = NULL }
        R == GroupRows(JoinLocation(S), [i \in ReportIds |-> reports[i].location_id])
    IN  { [location_id |-> r.key, location_name |-> location_name(r.key),
           position |-> locations[r.key].pos, count |-> r.count,
           risk_level |-> risk_level(r.count, min_incidents),
           county |-> locations[r.key].county,
           sub_county |-> locations[r.key].sub_county] :
          r \in R }

\* The rows of the hotspot query, without their order: the locations with
\* at least min_incidents reports that are not deleted and not older than
\* days_back days.
HotspotRows(min_incidents, days_back) ==
    LET start_date == now - days_back
        S == { i \in ReportIds : /\ reports[i].created_at >= start_date
                                 /\ reports[i].deleted_at = NULL }
        R == GroupRows(JoinLocation(S), [i \in ReportIds |-> reports[i].location_id])
    IN  { [location_id |-> r.key, location_name |-> location_name(r.key),
           position |-> locations[r.key].pos, count |-> r.count,
           risk_level |-> risk_level(r.count, min_incidents),
           county |-> locations[r.key].county,
           sub_county |-> locations[r.key].sub_county] :
          r \in {q \in R : q.count >= min_incidents} }

\* A response that merges into the first hotspot the hotspots that lie within
\* radius_km of it.
HotspotResponseMerged(radius_km, min_incidents, days_back, hotspots) ==
    LET Near(h) == Abs(h.position - hotspots[1].position) <= radius_km * 1000
        Far(h) == ~Near(h)
        near == SelectSeq(hotspots, Near)
        merged == IF hotspots = <<>> THEN <<>>
                  ELSE <<[hotspots[1] EXCEPT !.count =
                            SumOver(DOMAIN near, [k \in DOMAIN near |-> near[k].count])]>>
                       \o SelectSeq(hotspots, Far)
    IN  [op |-> "get_hotspot_analysis", status |-> 200, radius_km |-> radius_km,
         min_incidents |-> min_incidents, days_back |-> days_back,
         hotspots |-> merged, total_hotspots |-> Len(merged)]

HotspotResponse(radius_km, min_incidents, days_back, hotspots) ==
    [op |-> "get_hotspot_analysis", status |-> 200, radius_km |-> radius_km,
     min_incidents |-> min_incidents, days_back |-> days_back,
     hotspots |-> hotspots, total_hotspots |-> Len(hotspots)]

\* A handler that stamps the reports it has read.
get_hotspot_analysis_stamping(radius_km, min_incidents, days_back, user) ==
    /\ IF ~check_analytics_permission(user)
       THEN response' = Forbidden("get_hotspot_analysis")
       ELSE \E hotspots \in OrderByCountDesc(HotspotRows(min_incidents, days_back)) :
               response' = HotspotResponse(radius_km, min_incidents, days_back,
                                           hotspots)
    /\ reports' = [i \in ReportIds |-> [reports[i] EXCEPT !.updated_at = now]]
    /\ UNCHANGED <<locations, now, input, users, request>>

get_hotspot_analysis(radius_km, min_incidents, days_back, user) ==
    /\ IF ~check_analytics_permission(user)
       THEN response' = Forbidden("get_hotspot_analysis")
       ELSE \E hotspots \in OrderByCountDesc(HotspotRows(min_incidents, days_back)) :
               response' = HotspotResponse(radius_km, min_incidents, days_back,
                                           hotspots)
    /\ UNCHANGED <<reports, locations, now, input, users, request>>

(***************************************************************************)
(* get_dashboard_summary                                                   *)
(***************************************************************************)
\* The risk level of a location in the summary's top_hotspots.
dashboard_risk_level(incident_count) ==
    IF incident_count >= 10 THEN "HIGH" ELSE "MEDIUM"

\* A filter that lets the soft-deleted reports through.
NotDeletedUnfiltered == ReportIds

\* CrimeReport.deleted_at.is_(None)
NotDeleted == {i \in ReportIds : reports[i].deleted_at = NULL}

\* The first n entries of the sequence s (LIMIT n).
Limit(s, n) == SubSeq(s, 1, IF Len(s) < n THEN Len(s) ELSE n)

\* User.deleted_at.is_(None)
LiveUsers == {u \in UserIds : users[u].deleted_at = NULL}

ActiveUsers == {u \in LiveUsers : users[u].is_active}

HighPriority ==
    {i \in NotDeleted : /\ reports[i].priority_score # NULL
                        /\ reports[i].priority_score >= 3
                        /\ reports[i].status \in {"in_progress", "under_investigation"}}

get_dashboard_summary(user) ==
    /\ IF ~check_analytics_permission(user)
       THEN response' = Forbidden("get_dashboard_summary")
       ELSE LET today_start == now
                week_start == now - 7
                month_start == now - 30
                total_reports == Cardinality(NotDeleted)
                week == {i \in NotDeleted : reports[i].created_at >= week_start}
                month == {i \in NotDeleted : reports[i].created_at >= month_start}
                days == { [period |-> r.key, count |-> r.count] :
                          r \in GroupRows(week, [i \in ReportIds |->
                                    date_trunc("day", reports[i].created_at)]) }
                spots == { [location_id |-> r.key,
                            location_name |-> location_name(r.key),
                            position |-> locations[r.key].pos, count |-> r.count,
                            risk_level |-> dashboard_risk_level(r.count)] :
                           r \in GroupRows(JoinLocation(month),
                                   [i \in ReportIds |-> reports[i].location_id]) }
                types == StatRows(month, [i \in ReportIds |-> reports[i].category],
                                  total_reports)
            IN  \E top_hotspots \in OrderByCountDesc(spots),
                   top_crime_types \in OrderByCountDesc(types) :
                  response' =
                    [op |-> "get_dashboard_summary", status |-> 200,
                     total_users |-> Cardinality(LiveUsers),
                     active_users |-> Cardinality(ActiveUsers),
                     total_reports |-> total_reports,
                     resolved_reports |-> Cardinality(
                        {i \in NotDeleted : reports[i].status = "resolved"}),
                     pending_reports |-> Cardinality(
                        {i \in NotDeleted : reports[i].status = "in_progress"}),
                     high_priority_reports |-> Cardinality(HighPriority),
                     today_reports |-> Cardinality(
                        {i \in NotDeleted : reports[i].created_at >= today_start}),
                     recent_trends |->
                        [k \in DOMAIN OrderByPeriod(days) |->
                            [period |-> PeriodLabel("daily", OrderByPeriod(days)[k].period),
                             count |-> OrderByPeriod(days)[k].count]],
                     top_hotspots |-> Limit(top_hotspots, 5),
                     top_crime_types |-> Limit(top_crime_types, 5),
                     last_updated |-> now]
    /\ UNCHANGED <<reports, locations, now, input, users, request>>

(***************************************************************************)
(* get_dashboard_summary, one store query at a time.                       *)
(***************************************************************************)
DashboardInFlight(pc) ==
    request.op = "get_dashboard_summary" /\ request.pc = pc

\* The rows of the three list queries on the store as it is.
WeeklyTrendRows ==
    LET week == {i \in NotDeleted : reports[i].created_at >= now - 7}
        days == { [period |-> r.key, count |-> r.count] :
                  r \in GroupRows(week, [i \in ReportIds |->
                            date_trunc("day", reports[i].created_at)]) }
    IN  [k \in DOMAIN OrderByPeriod(days) |->
            [period |-> PeriodLabel("daily", OrderByPeriod(days)[k].period),
             count |-> OrderByPeriod(days)[k].count]]

DashboardHotspotRows ==
    LET month == {i \in NotDeleted : reports[i].created_at >= now - 30}
    IN  { [location_id |-> r.key, location_name |-> location_name(r.key),
           position |-> locations[r.key].pos, count |-> r.count,
           risk_level |-> dashboard_risk_level(r.count)] :
          r \in GroupRows(JoinLocation(month),
                          [i \in ReportIds |-> reports[i].location_id]) }

DashboardCrimeTypeRows(total_reports) ==
    LET month == {i \in NotDeleted : reports[i].created_at >= now - 30}
    IN  StatRows(month, [i \in ReportIds |-> reports[i].category], total_reports)

\* The permission check and the first query.
dashboard_total_users(user) ==
    /\ request = NoRequest
    /\ IF ~check_analytics_permission(user)
       THEN /\ response' = Forbidden("get_dashboard_summary")
            /\ UNCHANGED request
       ELSE /\ request' =
                 [op |-> "get_dashboard_summary", pc |-> "active_users",
                  total_users |-> Cardinality(LiveUsers),
                  active_users |-> 0, total_reports |-> 0,
                  resolved_reports |-> 0, pending_reports |-> 0,
                  high_priority_reports |-> 0, today_reports |-> 0,
                  recent_trends |-> <<>>, top_hotspots |-> <<>>]
            /\ response' = NoResponse
    /\ UNCHANGED <<reports, locations, users, now, input>>

dashboard_active_users ==
    /\ DashboardInFlight("active_users")
    /\ request' = [request EXCEPT !.pc = "total_reports",
                                  !.active_users = Cardinality(ActiveUsers)]
    /\ UNCHANGED <<reports, locations, users, now, input, response>>

dashboard_total_reports ==
    /\ DashboardInFlight("total_reports")
    /\ request' = [request EXCEPT !.pc = "resolved_reports",
                                  !.total_reports = Cardinality(NotDeleted)]
    /\ UNCHANGED <<reports, locations, users, now, input, response>>

dashboard_resolved_reports ==
    /\ DashboardInFlight("resolved_reports")
    /\ request' = [request EXCEPT
          !.pc = "pending_reports",
          !.resolved_reports =
              Cardinality({i \in NotDeleted : reports[i].status = "resolved"})]
    /\ UNCHANGED <<reports, locations, users, now, input, response>>

dashboard_pending_reports ==
    /\ DashboardInFlight("pending_reports")
    /\ request' = [request EXCEPT
          !.pc = "high_priority_reports",
          !.pending_reports =
              Cardinality({i \in NotDeleted : reports[i].status = "in_progress"})]
    /\ UNCHANGED <<reports, locations, users, now, input, response>>

dashboard_high_priority_reports ==
    /\ DashboardInFlight("high_priority_reports")
    /\ request' = [request EXCEPT
          !.pc = "today_reports",
          !.high_priority_reports = Cardinality(HighPriority)]
    /\ UNCHANGED <<reports, locations, users, now, input, response>>

dashboard_today_reports ==
    /\ DashboardInFlight("today_reports")
    /\ request' = [request EXCEPT
          !.pc = "weekly_trend_stmt",
          !.today_reports =
              Cardinality({i \in NotDeleted : reports[i].created_at >= now})]
    /\ UNCHANGED <<reports, locations, users, now, input, response>>

weekly_trend_stmt ==
    /\ DashboardInFlight("weekly_trend_stmt")
    /\ request' = [request EXCEPT !.pc = "hotspot_stmt",
                                  !.recent_trends = WeeklyTrendRows]
    /\ UNCHANGED <<reports, locations, users, now, input, response>>

dashboard_hotspot_stmt ==
    /\ DashboardInFlight("hotspot_stmt")
    /\ \E top_hotspots \in OrderByCountDesc(DashboardHotspotRows) :
          request' = [request EXCEPT !.pc = "crime_type_stmt",
                                     !.top_hotspots = Limit(top_hotspots, 5)]
    /\ UNCHANGED <<reports, locations, users, now, input, response>>

\* The last query, and the response built from all ten.
crime_type_stmt ==
    /\ DashboardInFlight("crime_type_stmt")
    /\ \E top_crime_types \in
            OrderByCountDesc(DashboardCrimeTypeRows(request.total_reports)) :
          response' =
            [op |-> "get_dashboard_summary", status |-> 200,
             total_users |-> request.total_users,
             active_users |-> request.active_users,
             total_reports |-> request.total_reports,
             resolved_reports |-> request.resolved_reports,
             pending_reports |-> request.pending_reports,
             high_priority_reports |-> request.high_priority_reports,
             today_reports |-> request.today_reports,
             recent_trends |-> request.recent_trends,
             top_hotspots |-> request.top_hotspots,
             top_crime_types |-> Limit(top_crime_types, 5),
             last_updated |-> now]
    /\ request' = NoRequest
    /\ UNCHANGED <<reports, locations, users, now, input>>

(***************************************************************************)
(* get_predictive_analysis                                                 *)
(***************************************************************************)
MonthsBack == <<1, 2, 3, 6, 12>>

\* The count of each historical window, one per look-back offset.
HistoricalPeriods(prediction_days, location_id, crime_type) ==
    [ k \in DOMAIN MonthsBack |->
        LET start_date == now - (30 * MonthsBack[k] + prediction_days)
            end_date == now - 30 * MonthsBack[k]
        IN  Cardinality(StatsConditions(start_date, end_date, location_id,
                                        crime_type)) ]

SeqSum(s) == SumOver(DOMAIN s, s)

\* n(n-1) times the sample variance of the counts: n * sum of squares less
\* the square of the sum.
ScaledVariance(counts) ==
    Len(counts) * SeqSum([k \in DOMAIN counts |-> counts[k] * counts[k]])
        - SeqSum(counts) * SeqSum(counts)

\* sqrt(n / d) rounded to the nearest integer, or cap + 1 when it is above
\* cap + 1/2.
RoundedRoot(n, d, cap) ==
    IF 4 * n >= (2 * cap + 1) * (2 * cap + 1) * d THEN cap + 1
    ELSE CHOOSE j \in 0..cap :
            /\ j = 0 \/ (2 * j - 1) * (2 * j - 1) * d <= 4 * n
            /\ 4 * n < (2 * j + 1) * (2 * j + 1) * d

\* The least integer r in 0..cap with r * r >= n / d.
CeilRoot(n, d, cap) == CHOOSE r \in 0..cap : r * r * d >= n /\ \A q \in 0..(r - 1) : q * q * d < n

\* The largest element of a non-empty finite set of integers.
Maximum(S) == CHOOSE x \in S : \A y \in S : y <= x

\* round(max(0.3, 1.0 - std_dev / max(avg_incidents, 1)), 2), in hundredths,
\* without the floor of 0.3.
confidence_unfloored(counts) ==
    LET n == Len(counts)
        total == SeqSum(counts)
        m == IF total > n THEN total ELSE n
    IN  IF n > 1
        THEN 100 - RoundedRoot((10000 \div (n - 1)) * n * ScaledVariance(counts),
                               m * m, 100)
        ELSE 100

\* round(max(0.3, 1.0 - std_dev / max(avg_incidents, 1)), 2), in hundredths:
\* std_dev / max(avg_incidents, 1) is the root of
\* v * n / ((n - 1) * max(total, n)^2) for v == ScaledVariance; n - 1 divides
\* 10000 for the five windows.  A single count has no deviation.
confidence(counts) ==
    LET n == Len(counts)
        total == SeqSum(counts)
        m == IF total > n THEN total ELSE n
        raw == IF n > 1
               THEN 100 - RoundedRoot((10000 \div (n - 1)) * n * ScaledVariance(counts),
                                      m * m, 100)
               ELSE 100
    IN  IF raw < 30 THEN 30 ELSE raw

\* A count rounded to the nearest integer.
predicted_count_rounded(counts, prediction_days) ==
    RoundHalfEven(SeqSum(counts), Len(counts) * prediction_days)

\* max(0, int(daily_avg)), daily_avg being mean(counts) / prediction_days
predicted_count(counts, prediction_days) ==
    SeqSum(counts) \div (Len(counts) * prediction_days)

\* One prediction point from the historical counts; the standard deviation
\* is the root of ScaledVariance / (n (n - 1)) and the daily average is
\* sum / (n * prediction_days).
PredictionPoint(counts, prediction_days) ==
    LET n == Len(counts)
        total == SeqSum(counts)
        v == IF n > 1 THEN ScaledVariance(counts) ELSE 0
        vd == IF n > 1 THEN n * (n - 1) ELSE 1
        span == n * prediction_days
    IN  [predicted_count |-> predicted_count(counts, prediction_days),
         confidence |-> confidence(counts),
         lower_bound |->
            Maximum({0} \cup { u \in 0..(total \div span) :
                /\ total - span * u >= 0
                /\ v * span * span <= vd * (total - span * u) * (total - span * u) }),
         upper_bound |->
            Maximum({ u \in 0..(total \div span + CeilRoot(v, vd, total) + 1) :
                \/ span * u <= total
                \/ vd * (span * u - total) * (span * u - total) <= v * span * span })]

\* A recommendation that looks at the predicted volume first.
generate_recommendation_volume_first(predicted_incidents, overall_confidence) ==
    IF predicted_incidents > 20 THEN "very high"
    ELSE IF predicted_incidents > 10 THEN "high"
    ELSE IF predicted_incidents > 5 THEN "moderate"
    ELSE IF overall_confidence < 60 THEN "low confidence"
    ELSE "low"

\* _generate_recommendation, by the message it returns; the confidence is in
\* hundredths.
generate_recommendation(predicted_incidents, overall_confidence) ==
    IF overall_confidence < 60 THEN "low confidence"
    ELSE IF predicted_incidents > 20 THEN "very high"
    ELSE IF predicted_incidents > 10 THEN "high"
    ELSE IF predicted_incidents > 5 THEN "moderate"
    ELSE "low"

\* The response for the historical counts; overall_confidence is 0 and no
\* point is returned when there is no historical count.
PredictiveResponse(counts, prediction_days) ==
    LET predictions ==
            IF Len(counts) > 0
            THEN [day \in 1..prediction_days |->
                    PredictionPoint(counts, prediction_days) @@ [date |-> now + day]]
            ELSE <<>>
        overall_confidence ==
            IF Len(counts) > 0
            THEN PredictionPoint(counts, prediction_days).confidence ELSE 0
        total_predicted ==
            SeqSum([day \in DOMAIN predictions |-> predictions[day].predicted_count])
    IN  [op |-> "get_predictive_analysis", status |-> 200,
         prediction_days |-> prediction_days, predictions |-> predictions,
         overall_confidence |-> overall_confidence,
         recommendation |-> generate_recommendation(total_predicted,
                                                    overall_confidence)]

get_predictive_analysis(prediction_days, location_id, crime_type, user) ==
    /\ IF ~check_analytics_permission(user)
       THEN response' = Forbidden("get_predictive_analysis")
       ELSE response' = PredictiveResponse(
               HistoricalPeriods(prediction_days, location_id, crime_type),
               prediction_days)
    /\ UNCHANGED <<reports, locations, now, input, users, request>>

(***************************************************************************)
(* get_performance_analytics                                               *)
(***************************************************************************)
\* The reports of the response-time query: resolved or closed, not deleted.
ResolvedReports ==
    {i \in NotDeleted : reports[i].status \in {"resolved", "closed"}}

\* updated_at - created_at in hundredths of an hour
ResponseTime(i) == (reports[i].updated_at - reports[i].created_at) * 2400

\* The response-time metrics, in hundredths of an hour; a duration of zero
\* is dropped by `if row[0]`.  The officers' table is not part of the store.
get_performance_analytics(user) ==
    /\ IF ~check_analytics_permission(user)
       THEN response' = Forbidden("get_performance_analytics")
       ELSE LET timed == {i \in ResolvedReports : ResponseTime(i) # 0}
                n == Cardinality(timed)
                times == [i \in timed |-> ResponseTime(i)]
                sorted == CHOOSE q \in Orderings(timed) :
                            \A a, b \in DOMAIN q : a < b => times[q[a]] <= times[q[b]]
            IN  response' =
                  [op |-> "get_performance_analytics", status |-> 200,
                   average_response_time_hours |->
                      IF n = 0 THEN 0 ELSE RoundHalfEven(SumOver(timed, times), n),
                   median_response_time_hours |->
                      IF n = 0 THEN 0
                      ELSE IF n % 2 = 1 THEN times[sorted[(n + 1) \div 2]]
                      ELSE RoundHalfEven(times[sorted[n \div 2]]
                                         + times[sorted[n \div 2 + 1]], 2),
                   fastest_response_time_hours |->
                      IF n = 0 THEN 0 ELSE times[sorted[1]],
                   slowest_response_time_hours |->
                      IF n = 0 THEN 0 ELSE times[sorted[n]],
                   total_resolved_cases |-> n]
    /\ UNCHANGED <<reports, locations, now, input, users, request>>

(***************************************************************************)
(* get_geographic_analytics                                                *)
(***************************************************************************)
\* key = f"{row.county}_{row.sub_county or 'Unknown'}"
RegionKey(county, sub_county) ==
    county \o "_" \o (IF sub_county \in {None, ""} THEN "Unknown" ELSE sub_county)

\* A score that is not cut off at 0.
safety_score_unclamped(total_incidents) == 100 - total_incidents * 2

safety_score(total_incidents) ==
    IF 100 - total_incidents * 2 > 0 THEN 100 - total_incidents * 2 ELSE 0

\* The rows of the query: the live reports with a location, grouped by
\* county, sub_county and category.
GeographicRows ==
    LET J == JoinLocation(NotDeleted)
        group(i) == <<locations[reports[i].location_id].county,
                      locations[reports[i].location_id].sub_county,
                      reports[i].category>>
    IN  { [county |-> g[1], sub_county |-> g[2], category |-> g[3],
           total_incidents |-> Cardinality({i \in J : group(i) = g})] :
          g \in {group(i) : i \in J} }

\* One turn of the loop over the rows: geographic_data and the crime_counts
\* of a region are dictionaries, kept in the order of insertion.
AddRegionRow(data, row) ==
    LET key == RegionKey(row.county, row.sub_county)
        at == {k \in DOMAIN data : data[k].key = key}
        counted == [category |-> row.category, count |-> row.total_incidents]
    IN  IF at = {}
        THEN Append(data, [key |-> key, county |-> row.county,
                           sub_county |-> row.sub_county,
                           total_incidents |-> row.total_incidents,
                           crime_counts |-> <<counted>>])
        ELSE LET k == CHOOSE x \in at : TRUE
                 same == {c \in DOMAIN data[k].crime_counts :
                            data[k].crime_counts[c].category = row.category}
             IN  [data EXCEPT
                    ![k].total_incidents = @ + row.total_incidents,
                    ![k].crime_counts =
                        IF same = {} THEN Append(@, counted)
                        ELSE [@ EXCEPT ![CHOOSE c \in same : TRUE] = counted]]

RECURSIVE geographic_data(_)
geographic_data(rows) ==
    IF rows = <<>> THEN <<>>
    ELSE AddRegionRow(geographic_data(SubSeq(rows, 1, Len(rows) - 1)),
                      rows[Len(rows)])

\* max(crime_counts, key = crime_counts.get): the first category with the
\* largest count.
most_common_crime(crime_counts) ==
    LET best == CHOOSE c \in DOMAIN crime_counts :
                    /\ \A o \in DOMAIN crime_counts :
                          crime_counts[o].count <= crime_counts[c].count
                    /\ \A o \in 1..(c - 1) :
                          crime_counts[o].count < crime_counts[c].count
    IN  crime_counts[best].category

GeographicStats(data) ==
    [county |-> data.county, sub_county |-> data.sub_county,
     total_incidents |-> data.total_incidents,
     most_common_crime |-> most_common_crime(data.crime_counts),
     safety_score |-> safety_score(data.total_incidents)]

\* The areas in the order of the breakdown.
unsorted_areas(areas) == areas

RECURSIVE sorted_areas(_)
\* sorted(geographic_breakdown, key = total_incidents): a stable sort, so
\* regions with the same total stay in the order of the breakdown.
sorted_areas(areas) ==
    IF areas = <<>> THEN <<>>
    ELSE LET before == sorted_areas(SubSeq(areas, 1, Len(areas) - 1))
             area == areas[Len(areas)]
             k == Cardinality({i \in DOMAIN before :
                        before[i].total_incidents <= area.total_incidents})
         IN  SubSeq(before, 1, k) \o <<area>> \o SubSeq(before, k + 1, Len(before))

\* The response for the regions of geographic_data.
GeographicResponse(data) ==
    LET geographic_breakdown == [k \in DOMAIN data |-> GeographicStats(data[k])]
        sorted == sorted_areas(geographic_breakdown)
    IN  [op |-> "get_geographic_analytics", status |-> 200,
         geographic_breakdown |-> geographic_breakdown,
         safest_areas |-> Limit(sorted, 5),
         most_dangerous_areas |->
            SubSeq(sorted, IF Len(sorted) > 5 THEN Len(sorted) - 4 ELSE 1,
                   Len(sorted))]

\* The rows come back in an order the store chooses.
get_geographic_analytics(user) ==
    /\ IF ~check_analytics_permission(user)
       THEN response' = Forbidden("get_geographic_analytics")
       ELSE \E rows \in Orderings(GeographicRows) :
               response' = GeographicResponse(geographic_data(rows))
    /\ UNCHANGED <<reports, locations, now, input, users, request>>

(***************************************************************************)
(* get_time_based_analytics                                                *)
(***************************************************************************)
\* extract('dow' from created_at): Sunday is 0 and day 0 is a Monday.
DayOfWeek(d) == (d + 1) % 7

day_names == <<"Sunday", "Monday", "Tuesday", "Wednesday", "Thursday",
               "Friday", "Saturday">>

month_names == <<"January", "February", "March", "April", "May", "June",
                 "July", "August", "September", "October", "November",
                 "December">>

\* The rows of a pattern query in the order of their value (ORDER BY).
OrderByKey(R) ==
    CHOOSE s \in Orderings(R) : \A a, b \in DOMAIN s : a < b => s[a].key < s[b].key

\* The rows of one pattern query with their percentage of total_incidents.
PatternRows(time_period, value, total_incidents) ==
    LET rows == OrderByKey(GroupRows(NotDeleted, value))
    IN  [k \in DOMAIN rows |->
            [time_period |-> time_period, period_value |-> rows[k].key,
             incident_count |-> rows[k].count,
             percentage |-> Percentage(rows[k].count, total_incidents)]]

\* sorted(patterns, key = incident_count, reverse = True)[:3]: the sort is
\* stable, so equal counts stay in the order of the patterns.
PeakPeriods(patterns) ==
    LET sorted == CHOOSE q \in Orderings(DOMAIN patterns) :
                    \A a, b \in DOMAIN q : a < b =>
                        \/ patterns[q[a]].incident_count > patterns[q[b]].incident_count
                        \/ /\ patterns[q[a]].incident_count = patterns[q[b]].incident_count
                           /\ q[a] < q[b]
    IN  [k \in DOMAIN Limit(sorted, 3) |-> patterns[sorted[k]].period_value]

get_time_based_analytics(user) ==
    /\ IF ~check_analytics_permission(user)
       THEN response' = Forbidden("get_time_based_analytics")
       ELSE LET hour == [i \in ReportIds |-> 0]
                total_incidents ==
                    LET R == GroupRows(NotDeleted, hour)
                    IN  SumOver(R, [r \in R |-> r.count])
                hourly_patterns == PatternRows("hour", hour, total_incidents)
                daily_patterns ==
                    PatternRows("day_of_week",
                        [i \in ReportIds |-> DayOfWeek(reports[i].created_at)],
                        total_incidents)
                monthly_patterns ==
                    PatternRows("month",
                        [i \in ReportIds |-> MonthOf(reports[i].created_at)],
                        total_incidents)
            IN  response' =
                  [op |-> "get_time_based_analytics", status |-> 200,
                   hourly_patterns |-> hourly_patterns,
                   daily_patterns |->
                      [k \in DOMAIN daily_patterns |->
                          [daily_patterns[k] EXCEPT
                              !.period_value = day_names[@ + 1]]],
                   monthly_patterns |->
                      [k \in DOMAIN monthly_patterns |->
                          [monthly_patterns[k] EXCEPT
                              !.period_value = month_names[@]]],
                   peak_crime_hours |-> PeakPeriods(hourly_patterns),
                   peak_crime_days |->
                      [k \in DOMAIN PeakPeriods(daily_patterns) |->
                          day_names[PeakPeriods(daily_patterns)[k] + 1]]]
    /\ UNCHANGED <<reports, locations, now, input, users, request>>

(***************************************************************************)
(* Specifications.                                                         *)
(***************************************************************************)
\* The requests that write reports, for a store of at most n reports.
ReportWrites(n) ==
    \/ \E p \in ReportInputs : Len(reports) < n /\ create_crime_report(p)
    \/ \E id \in 1..n, s \in StatusInputs, u \in Callers :
          update_report_status(id, s, u)
    \/ \E id \in 1..n, u \in Callers : delete_crime_report(id, u)

DateArgs == {NULL, 1}
LocationArgs == {NULL, 1}
CrimeTypeArgs == {None, "theft"}
Analysts == {u \in Callers : u.id \in {2, 3}}

StatsRequest ==
    \E sd \in DateArgs, ed \in {NULL}, l \in LocationArgs, c \in CrimeTypeArgs,
       u \in Analysts : get_crime_statistics(sd, ed, l, c, u)

PeriodArgs == ValidPeriods \cup {"hourly"}

\* A trend request through the endpoint, or to the controller itself.
TrendRequest ==
    \E p \in PeriodArgs, c \in CrimeTypeArgs, u \in Analysts :
        \/ trends_endpoint(p, c, NULL, u)
        \/ get_trend_analysis(p, c, NULL, u)

\* The reports of the life-cycle: filed at a location of the store.
LifecycleInputs ==
    {p \in ReportInputs : p.location_id \in DOMAIN SeedLocations /\ p.category = "theft"}

\* The arguments of the analytics requests of the life-cycle.
LifecyclePeriod == "monthly"
DefaultDaysBack == 30

\* The life-cycle of the reports: an officer asks for every analysis between
\* the creations, status updates and soft-deletes.
Next ==
    \/ Tick
    \/ \E p \in LifecycleInputs : Len(reports) < MaxReports /\ create_crime_report(p)
    \/ \E id \in 1..MaxReports, s \in StatusInputs, u \in {Reporter, Officer} :
          update_report_status(id, s, u)
    \/ \E id \in 1..MaxReports, u \in {Reporter, Officer} :
          delete_crime_report(id, u)
    \/ get_crime_statistics(NULL, NULL, NULL, None, Officer)
    \/ get_trend_analysis(LifecyclePeriod, None, NULL, Officer)
    \/ get_hotspot_analysis(5, 1, DefaultDaysBack, Officer)
    \/ get_predictive_analysis(1, NULL, None, Officer)
    \/ get_dashboard_summary(Officer)
    \/ get_performance_analytics(Officer)
    \/ get_geographic_analytics(Officer)
    \/ get_time_based_analytics(Officer)

Spec == Init /\ [][Next]_vars

\* The trend requests, valid and not, over stores of reports of one date.
NextPeriod ==
    \/ \E p \in ReportInputs : Len(reports) < MaxReports /\ create_crime_report(p)
    \/ TrendRequest

SpecPeriod == Init /\ [][NextPeriod]_vars

\* The hotspot analysis over stores with up to MaxHotReports reports.
MaxHotReports == 3
MinIncidentsArgs == {1, 2}

NextHotspot ==
    \/ Tick
    \/ \E p \in ReportInputs : Len(reports) < MaxHotReports /\ create_crime_report(p)
    \/ \E id \in 1..MaxHotReports : delete_crime_report(id, Reporter)
    \/ \E m \in MinIncidentsArgs, u \in Analysts :
          get_hotspot_analysis(5, m, DefaultDaysBack, u)

SpecHotspot == Init /\ [][NextHotspot]_vars

\* The tier of every incident count a hotspot can have, for every threshold.
MaxIncidents == 24
MaxMinIncidents == 6

InitRisk ==
    /\ reports = <<>>
    /\ locations = SeedLocations
    /\ users = SeedUsers
    /\ request = NoRequest
    /\ now = 0
    /\ response = NoResponse
    /\ input \in { [incident_count |-> c, min_incidents |-> m] :
                     c \in 1..MaxIncidents, m \in 1..MaxMinIncidents }
    /\ input.incident_count >= input.min_incidents

RiskOfCount ==
    /\ response = NoResponse
    /\ response' = [op |-> "risk_level", status |-> 200,
                    risk_level |-> risk_level(input.incident_count,
                                              input.min_incidents)]
    /\ UNCHANGED <<reports, locations, now, input, users, request>>

NextRisk == RiskOfCount

SpecRisk == InitRisk /\ [][NextRisk]_vars

\* The two risk tierings over the same store: the summary and the hotspot
\* analysis with its default threshold and the summary's window.
MaxTierReports == 5
DefaultMinIncidents == 5

NextTiers ==
    \/ \E p \in LifecycleInputs : Len(reports) < MaxTierReports /\ create_crime_report(p)
    \/ get_dashboard_summary(Officer)
    \/ get_hotspot_analysis(5, DefaultMinIncidents, DefaultDaysBack, Officer)

SpecTiers == Init /\ [][NextTiers]_vars

\* The locations near a point, while locations are created and deleted.
MaxLocations == 4
QueryPositions == {0}
RadiusArgs == {100, 128, 1000}

NextNearby ==
    \/ \E p \in LocationInputs, u \in {Officer, Reporter} :
          Cardinality(LocationIds) < MaxLocations /\ create_location(p, u)
    \/ \E id \in 1..MaxLocations, u \in {Admin, Officer} : delete_location(id, u)
    \/ \E pos \in QueryPositions, r \in RadiusArgs :
          get_nearby_locations(pos, r, Reporter)

SpecNearby == Init /\ [][NextNearby]_vars

\* The locations near a point, while locations are created, moved and
\* deleted.
MovedPositions == {50}

NextLocations ==
    \/ \E p \in {q \in LocationInputs : q.pos > 500} :
          Cardinality(LocationIds) < MaxLocations /\ create_location(p, Officer)
    \/ \E id \in 1..MaxLocations, pos \in MovedPositions, u \in {Officer, Reporter} :
          update_location(id, pos, u)
    \/ \E id \in 1..MaxLocations : delete_location(id, Admin)
    \/ \E pos \in QueryPositions, r \in RadiusArgs :
          get_nearby_locations(pos, r, Reporter)

SpecLocations == Init /\ [][NextLocations]_vars

\* The regions of the geographic analysis, while locations and reports are
\* created and reports are deleted.  A location can name its sub_county
\* "Unknown"; the reports are filed at locations 2, 3 and 4.
MaxGeoReports == 3

RegionInputs ==
    { [pos |-> 300, city |-> None, county |-> "Kiambu", sub_county |-> "Unknown"] }

GeoReportInputs ==
    { [category |-> "theft", severity |-> "medium", location_id |-> 2],
      [category |-> "theft", severity |-> "medium", location_id |-> 3],
      [category |-> "assault", severity |-> "high", location_id |-> 3] }

NextGeo ==
    \/ \E p \in RegionInputs :
          Cardinality(LocationIds) < MaxLocations /\ create_location(p, Officer)
    \/ \E p \in GeoReportInputs :
          Len(reports) < MaxGeoReports /\ create_crime_report(p)
    \/ \E id \in 1..MaxGeoReports : delete_crime_report(id, Reporter)
    \/ get_geographic_analytics(Officer)

SpecGeo == Init /\ [][NextGeo]_vars

\* The scores and the two rankings over arbitrary regions: up to MaxRegions
\* regions of one county, each with one of a few totals.
MaxRegions == 6
RegionTotals == {1, 2, 60}
RegionNames == <<"Westlands", "Langata", "Kasarani", "Dagoretti", "Embakasi",
                 "Starehe", "Makadara", "Kibra">>

TotalsSeries == UNION { [1..n -> RegionTotals] : n \in 0..MaxRegions }

\* geographic_data for the totals: the k-th region has the k-th name.
SeriesRegions(totals) ==
    [k \in DOMAIN totals |->
        [key |-> RegionKey("Nairobi", RegionNames[k]), county |-> "Nairobi",
         sub_county |-> RegionNames[k], total_incidents |-> totals[k],
         crime_counts |-> <<[category |-> "theft", count |-> totals[k]]>>]]

InitAreas ==
    /\ reports = <<>>
    /\ locations = SeedLocations
    /\ users = SeedUsers
    /\ request = NoRequest
    /\ now = 0
    /\ response = NoResponse
    /\ input \in TotalsSeries

AreasOfTotals ==
    /\ response = NoResponse
    /\ response' = GeographicResponse(SeriesRegions(input))
    /\ UNCHANGED <<reports, locations, now, input, users, request>>

NextAreas == AreasOfTotals

SpecAreas == InitAreas /\ [][NextAreas]_vars

\* The prediction over arbitrary counts of the five historical windows.
MaxWindowCount == 3
WindowCounts == 0..MaxWindowCount \cup {8, 15, 30}
PredictionDaysArgs == {1, 2, 30}

InitPredict ==
    /\ reports = <<>>
    /\ locations = SeedLocations
    /\ users = SeedUsers
    /\ request = NoRequest
    /\ now = 0
    /\ response = NoResponse
    /\ input \in [counts : [DOMAIN MonthsBack -> WindowCounts],
                  prediction_days : PredictionDaysArgs]

PredictionOfCounts ==
    /\ response = NoResponse
    /\ response' = PredictiveResponse(input.counts, input.prediction_days)
    /\ UNCHANGED <<reports, locations, now, input, users, request>>

NextPredict == PredictionOfCounts

SpecPredict == InitPredict /\ [][NextPredict]_vars

\* Every analytics operation for a caller of every role: `input` is the
\* authenticated user of the session.
Roles == Callers \cup {Admin, Dispatcher}

InitRoles ==
    /\ reports = <<>>
    /\ locations = SeedLocations
    /\ users = SeedUsers
    /\ request = NoRequest
    /\ now = 0
    /\ response = NoResponse
    /\ input \in Roles

NextRoles ==
    \/ \E p \in LifecycleInputs : Len(reports) < MaxReports /\ create_crime_report(p)
    \/ get_crime_statistics(NULL, NULL, NULL, None, input)
    \/ get_trend_analysis(LifecyclePeriod, None, NULL, input)
    \/ get_hotspot_analysis(5, 1, DefaultDaysBack, input)
    \/ get_predictive_analysis(1, NULL, None, input)
    \/ get_dashboard_summary(input)
    \/ get_performance_analytics(input)
    \/ get_geographic_analytics(input)
    \/ get_time_based_analytics(input)

SpecRoles == InitRoles /\ [][NextRoles]_vars

\* Every analytics operation on stores whose reports are created and
\* deleted, the statistics also for a window that ends before it starts.
EndDateArgs == {NULL, 0}

NextEmpty ==
    \/ \E p \in LifecycleInputs : Len(reports) < MaxReports /\ create_crime_report(p)
    \/ \E id \in 1..MaxReports : delete_crime_report(id, Reporter)
    \/ \E sd \in DateArgs, ed \in EndDateArgs :
          get_crime_statistics(sd, ed, NULL, None, Officer)
    \/ get_trend_analysis(LifecyclePeriod, None, NULL, Officer)
    \/ get_hotspot_analysis(5, 1, DefaultDaysBack, Officer)
    \/ get_predictive_analysis(1, NULL, None, Officer)
    \/ get_dashboard_summary(Officer)
    \/ get_performance_analytics(Officer)
    \/ get_geographic_analytics(Officer)
    \/ get_time_based_analytics(Officer)

SpecEmpty == Init /\ [][NextEmpty]_vars

\* The statistics for one list of arguments, kept in input, over stores
\* whose reports are filed on day 0 and after a tick, and soft-deleted.
FilterArgs ==
    [start_date : DateArgs, end_date : {NULL, MaxDay},
     location_id : LocationArgs, crime_type : CrimeTypeArgs]

FilterInputs == {p \in ReportInputs : p.location_id \in DOMAIN SeedLocations}

InitFilters ==
    /\ reports = <<>>
    /\ locations = SeedLocations
    /\ users = SeedUsers
    /\ request = NoRequest
    /\ now = 0
    /\ response = NoResponse
    /\ input \in FilterArgs

StatsOfInput ==
    get_crime_statistics(input.start_date, input.end_date, input.location_id,
                         input.crime_type, Officer)

NextFilters ==
    \/ Tick
    \/ \E p \in FilterInputs : Len(reports) < MaxReports /\ create_crime_report(p)
    \/ \E id \in 1..MaxReports : delete_crime_report(id, Reporter)
    \/ StatsOfInput

SpecFilters == InitFilters /\ [][NextFilters]_vars

\* A statistics request whose six queries interleave with the creations and
\* the soft-deletions that other requests commit.
NextStatsInterleaved ==
    \/ \E p \in LifecycleInputs : Len(reports) < MaxReports /\ create_crime_report(p)
    \/ \E id \in 1..MaxReports : delete_crime_report(id, Reporter)
    \/ total_reports_stmt(NULL, NULL, NULL, None, Officer)
    \/ type_stats_stmt
    \/ location_stats_stmt
    \/ severity_stats_stmt
    \/ status_stats_stmt
    \/ response_time_stmt

SpecStatsInterleaved == Init /\ [][NextStatsInterleaved]_vars

\* A dashboard request whose ten queries interleave with the writes to the
\* reports and to the users that other requests commit.
MaxDashReports == 1
DashboardInputs == {p \in LifecycleInputs : p.location_id = 1}
DashboardStatusInputs == {"resolved", "in_progress"}
HighPriorityScore == 3

NextDashboardInterleaved ==
    \/ \E p \in DashboardInputs :
          Len(reports) < MaxDashReports /\ create_crime_report(p)
    \/ \E id \in 1..MaxDashReports, st \in DashboardStatusInputs :
          update_report_status(id, st, Officer)
    \/ \E id \in 1..MaxDashReports :
          update_crime_report(id, HighPriorityScore, Officer)
    \/ \E id \in 1..MaxDashReports : delete_crime_report(id, Reporter)
    \/ register_user(7, "citizen")
    \/ deactivate_account(Reporter)
    \/ dashboard_total_users(Officer)
    \/ dashboard_active_users
    \/ dashboard_total_reports
    \/ dashboard_resolved_reports
    \/ dashboard_pending_reports
    \/ dashboard_high_priority_reports
    \/ dashboard_today_reports
    \/ weekly_trend_stmt
    \/ dashboard_hotspot_stmt
    \/ crime_type_stmt

SpecDashboardInterleaved == Init /\ [][NextDashboardInterleaved]_vars

\* The trend of each of the four periods over reports filed on day 0 and a
\* tick later, in two weeks and two months of one year.
NextLabels ==
    \/ Tick
    \/ \E p \in LifecycleInputs : Len(reports) < MaxReports /\ create_crime_report(p)
    \/ \E id \in 1..MaxReports : delete_crime_report(id, Reporter)
    \/ \E p \in ValidPeriods : get_trend_analysis(p, None, NULL, Officer)

SpecLabels == Init /\ [][NextLabels]_vars

\* The hotspot analysis for a radius below and a radius above the distance
\* of the two locations of the store, 1200 metres.
RadiusKmArgs == {1, 5}

NextRadius ==
    \/ \E p \in FilterInputs : Len(reports) < MaxReports /\ create_crime_report(p)
    \/ \E id \in 1..MaxReports : delete_crime_report(id, Reporter)
    \/ \E r \in RadiusKmArgs, m \in MinIncidentsArgs :
          get_hotspot_analysis(r, m, DefaultDaysBack, Officer)

SpecRadius == Init /\ [][NextRadius]_vars

\* Every analytics operation, allowed, refused and with a period that is not
\* one of the four, between writes to the reports, locations and users.
NewEmails == {6, 7}
FrameCallers == {Reporter, Officer}

NextFrame ==
    \/ Tick
    \/ \E p \in LifecycleInputs : Len(reports) < MaxReports /\ create_crime_report(p)
    \/ \E e \in NewEmails : register_user(e, "citizen")
    \/ deactivate_account(Reporter)
    \/ delete_location(2, Admin)
    \/ \E u \in FrameCallers :
          \/ get_crime_statistics(NULL, NULL, NULL, None, u)
          \/ \E p \in {LifecyclePeriod, "hourly"} : get_trend_analysis(p, None, NULL, u)
          \/ get_hotspot_analysis(5, 1, DefaultDaysBack, u)
          \/ get_predictive_analysis(1, NULL, None, u)
          \/ get_dashboard_summary(u)
          \/ get_performance_analytics(u)
          \/ get_geographic_analytics(u)
          \/ get_time_based_analytics(u)

SpecFrame == Init /\ [][NextFrame]_vars

\* The statistics over stores of up to MaxStatReports reports, at one date.
NextStats ==
    \/ ReportWrites(MaxStatReports)
    \/ StatsRequest

SpecStats == Init /\ [][NextStats]_vars

\* The trend computation over arbitrary series of bucket counts.
MaxCount == 21
MaxLen == 3

CountSeries == UNION { [1..n -> 0..MaxCount] : n \in 0..MaxLen }

\* The rows of a series: one bucket a day.
SeriesRows(counts) == [i \in DOMAIN counts |-> [period |-> i - 1, count |-> counts[i]]]

InitTrend ==
    /\ reports = <<>>
    /\ locations = SeedLocations
    /\ users = SeedUsers
    /\ request = NoRequest
    /\ now = 0
    /\ response = NoResponse
    /\ input \in CountSeries

TrendOfSeries ==
    /\ response = NoResponse
    /\ response' = TrendResponse(SeriesRows(input), "daily")
    /\ UNCHANGED <<reports, locations, now, input, users, request>>

NextTrend == TrendOfSeries

SpecTrend == InitTrend /\ [][NextTrend]_vars

(***************************************************************************)
(* Properties.                                                             *)
(***************************************************************************)
Range(s) == {s[i] : i \in DOMAIN s}

IsStats == response.op = "get_crime_statistics" /\ response.status = 200

\* The four groupings of a statistics response, each as a set of entries.
Groupings(r) ==
    { r.stats_by_type, Range(r.stats_by_location), r.stats_by_severity,
      r.stats_by_status }

CountSum(G) == SumOver(G, [e \in G |-> e.count])
PercentageSum(G) == SumOver(G, [e \in G |-> e.percentage])

\* x is n / d rounded to the nearest integer
Nearest(x, n, d) == 2 * Abs(x * d - n) <= d

\* C2: in a crime-statistics response the counts of each of the four
\* groupings sum to total_crimes, and when total_crimes > 0 the percentages
\* of each grouping sum to 100 within half a hundredth per entry.
C2_GroupingsSumToTotal ==
    IsStats =>
        \A G \in Groupings(response) :
            /\ CountSum(G) = response.total_crimes
            /\ response.total_crimes > 0 =>
                  2 * Abs(PercentageSum(G) - 10000) <= Cardinality(G)

\* A response over three reports in two categories: 66.67 % and 33.33 %.
C2_Witness ==
    /\ IsStats
    /\ response.total_crimes = 3
    /\ Cardinality(response.stats_by_type) = 2
    /\ Len(response.stats_by_location) = 2

\* C3: every grouped statistic has percentage = round(count / total_crimes
\* * 100, 2) for the one total of the response, and 0 when that total is 0.
C3_PercentageOfTotal ==
    IsStats =>
        \A G \in Groupings(response) : \A e \in G :
            IF response.total_crimes > 0
            THEN Nearest(e.percentage, e.count * 10000, response.total_crimes)
            ELSE e.percentage = 0

\* A statistic that is rounded: 2 of 3 reports, 66.67 %.
C3_Witness ==
    /\ IsStats
    /\ \E e \in response.stats_by_severity : e.count = 2 /\ e.percentage = 6667

IsTrend == response.op = "get_trend_analysis" /\ response.status = 200

\* C4: the first point of a trend series has no percentage_change; a later
\* point has none exactly when the count before it is 0, and otherwise has
\* round((count - previous) / previous * 100, 2).
C4_PercentageChange ==
    IsTrend =>
        LET t == response.trends
        IN  \A i \in DOMAIN t :
              IF i = 1 THEN t[i].percentage_change = NoChange
              ELSE /\ t[i].percentage_change = NoChange <=> t[i - 1].count = 0
                   /\ t[i - 1].count > 0 =>
                        /\ Len(t[i].percentage_change) = 1
                        /\ Nearest(t[i].percentage_change[1],
                                   (t[i].count - t[i - 1].count) * 10000,
                                   t[i - 1].count)

\* A series with a point after an empty bucket and a point with a rounded
\* change (3 -> 4 is 33.33 %).
C4_Witness ==
    /\ IsTrend
    /\ Len(response.trends) = 3
    /\ response.trends[1].count = 0
    /\ response.trends[2].percentage_change = NoChange
    /\ response.trends[2].count = 3
    /\ response.trends[3].percentage_change = Some(3333)

\* C5: total_change_percentage compares the first and the last bucket only,
\* round((last - first) / first * 100, 2) when first > 0 and 0 otherwise; the
\* direction is "increasing" exactly above 5, "decreasing" exactly below -5
\* and "stable" otherwise; fewer than two buckets give 0 and "stable".
C5_OverallTrend ==
    IsTrend =>
        LET t == response.trends
            n == Len(t)
            change == response.total_change_percentage
        IN  /\ IF n >= 2 /\ t[1].count > 0
               THEN Nearest(change, (t[n].count - t[1].count) * 10000, t[1].count)
               ELSE change = 0
            /\ response.trend_direction = "increasing" <=> change > 500
            /\ response.trend_direction = "decreasing" <=> change < -500
            /\ response.trend_direction \in {"increasing", "decreasing", "stable"}
            /\ n < 2 => change = 0 /\ response.trend_direction = "stable"

\* The series 20, 1, 21: a change of exactly 5 %, which is stable.
C5_Witness ==
    /\ IsTrend
    /\ Len(response.trends) = 3
    /\ response.trends[1].count = 20
    /\ response.trends[3].count = 21
    /\ response.total_change_percentage = 500
    /\ response.trend_direction = "stable"

IsBadPeriod ==
    response.op = "get_trend_analysis" /\ response.period \notin ValidPeriods

\* C6 as stated: a trend request with an unknown period is answered 400
\* before any read of the store.
C6_Original == IsBadPeriod => response.status = 400 /\ response.reads = 0

\* C6: a trend request with an unknown period is rejected with a client
\* error before any read of the store and is never answered for another
\* period: 422 by the endpoint, 403 or 400 by the controller.
C6_BadPeriodRejected ==
    IsBadPeriod => response.status \in {400, 403, 422} /\ response.reads = 0

\* The controller rejects the period of an officer's request.
C6_Witness == IsBadPeriod /\ response.status = 400

(***************************************************************************)
(* Soft-deleted reports in the analytics (life-cycle specification).       *)
(***************************************************************************)
Live == {i \in ReportIds : reports[i].deleted_at = NULL}

\* The number of live reports created on day d or later.
LiveSince(d) == Cardinality({i \in Live : reports[i].created_at >= d})

LiveResolved == {i \in Live : reports[i].status \in {"resolved", "closed"}}

\* The live reports created in one of the historical windows of a prediction.
LiveInWindows(prediction_days) ==
    {i \in Live : \E k \in DOMAIN MonthsBack :
        /\ reports[i].created_at >= now - (30 * MonthsBack[k] + prediction_days)
        /\ reports[i].created_at <= now - 30 * MonthsBack[k]}

\* C1: after any creations, status updates and soft-deletes, the counts of
\* every analytics response are counts of reports whose deleted_at is unset:
\* each response accounts for exactly the live reports of its window, so a
\* soft-deleted report is in no later result.
C1_OnlyLiveCounted ==
    (response # NoResponse /\ response.status = 200) =>
      CASE response.op = "get_crime_statistics" ->
             /\ response.total_crimes = Cardinality({i \in Live :
                    /\ reports[i].created_at >= response.start_date
                    /\ reports[i].created_at <= response.end_date})
             /\ \A G \in Groupings(response) : CountSum(G) <= response.total_crimes
        [] response.op = "get_trend_analysis" ->
             SeqSum([k \in DOMAIN response.trends |-> response.trends[k].count])
                = LiveSince(now - PeriodDaysBack(response.period))
        [] response.op = "get_hotspot_analysis" ->
             LET counted == SeqSum([k \in DOMAIN response.hotspots |->
                                        response.hotspots[k].count])
             IN  /\ counted <= LiveSince(now - response.days_back)
                 /\ response.min_incidents = 1 =>
                        counted = LiveSince(now - response.days_back)
        [] response.op = "get_predictive_analysis" ->
             \A k \in DOMAIN response.predictions :
                LET in_windows == Cardinality(LiveInWindows(response.prediction_days))
                IN  /\ response.predictions[k].upper_bound <= in_windows
                    /\ response.predictions[k].predicted_count <= in_windows
                    /\ response.predictions[k].confidence < 100 => in_windows > 0
        [] response.op = "get_dashboard_summary" ->
             /\ response.total_reports = Cardinality(Live)
             /\ response.today_reports = LiveSince(now)
             /\ response.resolved_reports <= Cardinality(LiveResolved)
             /\ SeqSum([k \in DOMAIN response.recent_trends |->
                            response.recent_trends[k].count]) = LiveSince(now - 7)
             /\ SeqSum([k \in DOMAIN response.top_hotspots |->
                            response.top_hotspots[k].count]) = LiveSince(now - 30)
             /\ SeqSum([k \in DOMAIN response.top_crime_types |->
                            response.top_crime_types[k].count]) = LiveSince(now - 30)
        [] response.op = "get_performance_analytics" ->
             response.total_resolved_cases <= Cardinality(LiveResolved)
        [] response.op = "get_geographic_analytics" ->
             SeqSum([k \in DOMAIN response.geographic_breakdown |->
                        response.geographic_breakdown[k].total_incidents])
                = Cardinality(Live)
        [] response.op = "get_time_based_analytics" ->
             \A patterns \in {response.hourly_patterns, response.daily_patterns,
                              response.monthly_patterns} :
                SeqSum([k \in DOMAIN patterns |-> patterns[k].incident_count])
                    = Cardinality(Live)
        [] OTHER -> TRUE

\* A summary over a store with one live and one soft-deleted report, both
\* of today: it counts one report.
C1_Witness ==
    /\ response.op = "get_dashboard_summary"
    /\ response.status = 200
    /\ Len(reports) = 2
    /\ Cardinality(Live) = 1
    /\ \A i \in ReportIds : reports[i].created_at = now
    /\ response.total_reports = 1
    /\ response.today_reports = 1
    /\ Len(response.top_hotspots) = 1

(***************************************************************************)
(* Hotspots and risk tiers.                                                *)
(***************************************************************************)
IsHotspots == response.op = "get_hotspot_analysis" /\ response.status = 200

\* C7: every hotspot returned has at least min_incidents incidents, the
\* hotspots are in non-increasing order of their incident count, and
\* total_hotspots is the number of hotspots returned.
C7_HotspotsFilteredAndOrdered ==
    IsHotspots =>
        LET h == response.hotspots
        IN  /\ \A k \in DOMAIN h : h[k].count >= response.min_incidents
            /\ \A a, b \in DOMAIN h : a < b => h[a].count >= h[b].count
            /\ response.total_hotspots = Len(h)

\* With min_incidents = 2: a location with two live reports is the one
\* hotspot, a location with one live report of the window is left out.
C7_Witness ==
    /\ IsHotspots
    /\ response.min_incidents = 2
    /\ response.total_hotspots = 1
    /\ response.hotspots[1].count = 2
    /\ \E i \in Live : /\ reports[i].location_id # response.hotspots[1].location_id
                       /\ reports[i].created_at >= now - response.days_back

IsRisk == response.op = "risk_level"

TierRank(tier) ==
    CASE tier = "LOW" -> 1
      [] tier = "MEDIUM" -> 2
      [] tier = "HIGH" -> 3
      [] tier = "CRITICAL" -> 4

\* C8: a hotspot with c incidents is CRITICAL when c >= 4m, HIGH when
\* 2m <= c < 4m, MEDIUM when 1.5m <= c < 2m and LOW otherwise, for the
\* caller's min_incidents m; no smaller count has a higher tier; m = 5 and
\* c = 20 give CRITICAL.
C8_RiskTiers ==
    IsRisk =>
        LET c == input.incident_count
            m == input.min_incidents
            tier == response.risk_level
        IN  /\ tier = "CRITICAL" <=> c >= 4 * m
            /\ tier = "HIGH" <=> (2 * m <= c /\ c < 4 * m)
            /\ tier = "MEDIUM" <=> (3 * m <= 2 * c /\ c < 2 * m)
            /\ tier = "LOW" <=> 2 * c < 3 * m
            /\ \A smaller \in m..c : TierRank(risk_level(smaller, m)) <= TierRank(tier)
            /\ (m = 5 /\ c = 20) => tier = "CRITICAL"

\* The tier of 20 incidents for min_incidents = 5.
C8_Witness ==
    /\ IsRisk
    /\ input = [incident_count |-> 20, min_incidents |-> 5]
    /\ response.risk_level = "CRITICAL"

\* C9: a location has the same risk_level in the top_hotspots of the summary
\* as in the hotspot analysis of the last 30 days with min_incidents = 5.
C9_SameTier ==
    (response.op = "get_dashboard_summary" /\ response.status = 200) =>
        \A k \in DOMAIN response.top_hotspots :
            \A h \in HotspotRows(DefaultMinIncidents, DefaultDaysBack) :
                h.location_id = response.top_hotspots[k].location_id =>
                    h.risk_level = response.top_hotspots[k].risk_level

(***************************************************************************)
(* Nearby locations.                                                       *)
(***************************************************************************)
IsNearby == response.op = "get_nearby_locations" /\ response.status = 200

IsGeo == response.op = "get_geographic_analytics" /\ response.status = 200

\* The live reports of the (county, sub_county) pair.
LiveOfPair(pair) ==
    {i \in Live :
        /\ reports[i].location_id \in LocationIds
        /\ locations[reports[i].location_id].county = pair[1]
        /\ locations[reports[i].location_id].sub_county = pair[2]}

\* C12: the geographic analysis returns exactly one entry for each distinct
\* (county, sub_county) pair with a live report, with total_incidents the
\* number of live reports of that pair; distinct pairs are not merged.
C12_OneEntryPerPair ==
    IsGeo =>
        LET b == response.geographic_breakdown
            pairs == {<<locations[l].county, locations[l].sub_county>> :
                        l \in {reports[i].location_id : i \in Live} \cap LocationIds}
        IN  /\ Len(b) = Cardinality(pairs)
            /\ \A pair \in pairs : \E k \in DOMAIN b :
                  /\ b[k].county = pair[1]
                  /\ b[k].sub_county = pair[2]
                  /\ b[k].total_incidents = Cardinality(LiveOfPair(pair))

\* C13: every region has safety_score = max(0, 100 - 2 * total_incidents),
\* which is within 0..100, and a region with more incidents never has a
\* higher score.
C13_SafetyScore ==
    IsGeo =>
        LET b == response.geographic_breakdown
        IN  \A k \in DOMAIN b :
              /\ b[k].safety_score =
                    (IF 2 * b[k].total_incidents <= 100
                     THEN 100 - 2 * b[k].total_incidents ELSE 0)
              /\ b[k].safety_score \in 0..100
              /\ \A j \in DOMAIN b :
                    b[j].total_incidents > b[k].total_incidents =>
                        b[j].safety_score <= b[k].safety_score

\* A region with 60 incidents scores 0 next to a region with 2 that scores 96.
C13_Witness ==
    /\ IsGeo
    /\ \E j, k \in DOMAIN response.geographic_breakdown :
          /\ response.geographic_breakdown[j].total_incidents = 60
          /\ response.geographic_breakdown[j].safety_score = 0
          /\ response.geographic_breakdown[k].total_incidents = 2
          /\ response.geographic_breakdown[k].safety_score = 96

\* C14: with n regions, safest_areas and most_dangerous_areas each hold
\* min(5, n) regions; no region left out of safest_areas has fewer incidents
\* than one in it, and no region left out of most_dangerous_areas has more
\* incidents than one in it.
C14_SafestAndMostDangerous ==
    IsGeo =>
        LET all == Range(response.geographic_breakdown)
            n == Len(response.geographic_breakdown)
            safest == Range(response.safest_areas)
            dangerous == Range(response.most_dangerous_areas)
            size == IF n < 5 THEN n ELSE 5
        IN  /\ Len(response.safest_areas) = size
            /\ Cardinality(safest) = size
            /\ safest \subseteq all
            /\ \A out \in all \ safest, in \in safest :
                  out.total_incidents >= in.total_incidents
            /\ Len(response.most_dangerous_areas) = size
            /\ Cardinality(dangerous) = size
            /\ dangerous \subseteq all
            /\ \A out \in all \ dangerous, in \in dangerous :
                  out.total_incidents <= in.total_incidents

\* Six regions, the first with the most incidents and the last with the
\* fewest: the first is left out of safest_areas, the last out of
\* most_dangerous_areas.
C14_Witness ==
    /\ IsGeo
    /\ Len(response.geographic_breakdown) = 6
    /\ response.geographic_breakdown[1].total_incidents = 60
    /\ response.geographic_breakdown[6].total_incidents = 1
    /\ \A k \in 2..5 : response.geographic_breakdown[k].total_incidents = 2
    /\ response.geographic_breakdown[1] \notin Range(response.safest_areas)
    /\ response.geographic_breakdown[6] \notin Range(response.most_dangerous_areas)

(***************************************************************************)
(* Predictions.                                                            *)
(***************************************************************************)
IsPrediction == response.op = "get_predictive_analysis" /\ response.status = 200

TotalPredicted ==
    SeqSum([k \in DOMAIN response.predictions |->
                response.predictions[k].predicted_count])

\* C15: every prediction point has a confidence within [0.3, 1.0], a
\* predicted_count >= 0 and lower_bound <= predicted_count <= upper_bound,
\* for any historical counts and prediction_days; overall_confidence is
\* within [0.3, 1.0] when a point is returned.
C15_PredictionRanges ==
    IsPrediction =>
        /\ \A k \in DOMAIN response.predictions :
              LET point == response.predictions[k]
              IN  /\ point.confidence >= 30 /\ point.confidence <= 100
                  /\ point.predicted_count >= 0
                  /\ point.lower_bound <= point.predicted_count
                  /\ point.predicted_count <= point.upper_bound
        /\ Len(response.predictions) >= 1 =>
              (response.overall_confidence >= 30 /\ response.overall_confidence <= 100)

\* Counts 30, 0, 0, 0, 0 for one day: the deviation is more than twice the
\* mean, so the confidence is the floor 0.3, and the bounds lie apart.
C15_Witness ==
    /\ IsPrediction
    /\ input.counts = <<30, 0, 0, 0, 0>>
    /\ input.prediction_days = 1
    /\ response.predictions[1].confidence = 30
    /\ response.predictions[1].predicted_count = 6
    /\ response.predictions[1].lower_bound = 0
    /\ response.predictions[1].upper_bound = 19

\* C16: when no report is in any of the historical windows the prediction
\* has overall_confidence 0.0, predicts 0 incidents in total and carries the
\* low-confidence recommendation.
C16_NoDataNoConfidence ==
    (IsPrediction /\ \A k \in DOMAIN input.counts : input.counts[k] = 0) =>
        /\ response.overall_confidence = 0
        /\ TotalPredicted = 0
        /\ response.recommendation = "low confidence"

\* C17: the recommendation is the low-confidence message whenever the
\* overall confidence is below 0.6, whatever the predicted volume; otherwise
\* it is the very-high message above 20 predicted incidents, the high message
\* above 10, the moderate message above 5 and the low message up to 5.
C17_RecommendationOrder ==
    IsPrediction =>
        response.recommendation =
            CASE response.overall_confidence < 60 -> "low confidence"
              [] response.overall_confidence >= 60 /\ TotalPredicted > 20 -> "very high"
              [] response.overall_confidence >= 60 /\ TotalPredicted > 10
                    /\ TotalPredicted <= 20 -> "high"
              [] response.overall_confidence >= 60 /\ TotalPredicted > 5
                    /\ TotalPredicted <= 10 -> "moderate"
              [] response.overall_confidence >= 60 /\ TotalPredicted <= 5 -> "low"

\* A prediction of 24 incidents with confidence 0.44: the low-confidence
\* message, not the very-high one.
C17_Witness ==
    /\ IsPrediction
    /\ TotalPredicted = 24
    /\ response.overall_confidence = 44
    /\ response.recommendation = "low confidence"

(***************************************************************************)
(* Repeated requests, permissions, empty stores.                           *)
(***************************************************************************)
AnalyticsOperations ==
    {"get_crime_statistics", "get_trend_analysis", "get_hotspot_analysis",
     "get_predictive_analysis", "get_dashboard_summary",
     "get_performance_analytics", "get_geographic_analytics",
     "get_time_based_analytics"}

\* C18: an analytics operation called again with the same arguments on an
\* unchanged store returns the same result, the order of the list entries
\* included.  (In the life-cycle every operation has one list of arguments,
\* so two successive responses of one operation are two such calls.)
C18_SameCallSameResult ==
    [][ ( /\ response.op \in AnalyticsOperations
          /\ response'.op = response.op
          /\ response.status = 200
          /\ response'.status = 200
          /\ UNCHANGED <<reports, locations>> )
        => response' = response ]_vars

\* C19: every analytics operation answers a caller who is neither police
\* officer nor admin with 403 before it reads the store, and proceeds for a
\* police officer and for an admin.
C19_LawEnforcementOnly ==
    response.op \in AnalyticsOperations =>
        IF input.role \in {"police_officer", "admin"}
        THEN response.status = 200
        ELSE response.status = 403 /\ response.reads = 0

\* An analyst is refused the summary of a store with a report.
C19_Witness ==
    /\ response.op = "get_dashboard_summary"
    /\ input.role = "analyst"
    /\ response.status = 403
    /\ Len(reports) >= 1

\* C20: when no report matches (no live report in the store, or a statistics
\* window whose start_date is after its end_date) every analytics operation
\* answers, with the neutral defaults: counts 0, lists empty, percentage 0,
\* average response time 0, trend "stable" with change 0, and a prediction
\* confidence of at least 0.3.
C20_NeutralDefaults ==
    ( /\ response.op \in AnalyticsOperations
      /\ \/ Live = {}
         \/ /\ response.op = "get_crime_statistics"
            /\ response.status = 200
            /\ response.start_date > response.end_date )
    => /\ response.status = 200
       /\ CASE response.op = "get_crime_statistics" ->
                 /\ response.total_crimes = 0
                 /\ \A G \in Groupings(response) : G = {}
                 /\ response.average_response_time_hours = 0
            [] response.op = "get_trend_analysis" ->
                 /\ response.trends = <<>>
                 /\ response.total_change_percentage = 0
                 /\ response.trend_direction = "stable"
            [] response.op = "get_hotspot_analysis" ->
                 response.hotspots = <<>> /\ response.total_hotspots = 0
            [] response.op = "get_predictive_analysis" ->
                 /\ TotalPredicted = 0
                 /\ response.overall_confidence >= 30
                 /\ \A k \in DOMAIN response.predictions :
                       response.predictions[k].confidence >= 30
            [] response.op = "get_dashboard_summary" ->
                 /\ response.total_reports = 0
                 /\ response.resolved_reports = 0
                 /\ response.pending_reports = 0
                 /\ response.today_reports = 0
                 /\ response.recent_trends = <<>>
                 /\ response.top_hotspots = <<>>
                 /\ response.top_crime_types = <<>>
            [] response.op = "get_performance_analytics" ->
                 /\ response.total_resolved_cases = 0
                 /\ response.average_response_time_hours = 0
                 /\ response.median_response_time_hours = 0
                 /\ response.fastest_response_time_hours = 0
                 /\ response.slowest_response_time_hours = 0
            [] response.op = "get_geographic_analytics" ->
                 /\ response.geographic_breakdown = <<>>
                 /\ response.safest_areas = <<>>
                 /\ response.most_dangerous_areas = <<>>
            [] response.op = "get_time_based_analytics" ->
                 /\ response.hourly_patterns = <<>>
                 /\ response.daily_patterns = <<>>
                 /\ response.monthly_patterns = <<>>
                 /\ response.peak_crime_hours = <<>>
                 /\ response.peak_crime_days = <<>>

\* Statistics for a window from day 1 to day 0 over a store with a live
\* report of day 0.
C20_Witness ==
    /\ response.op = "get_crime_statistics"
    /\ response.status = 200
    /\ response.start_date = 1
    /\ response.end_date = 0
    /\ \E i \in Live : reports[i].created_at = 0
    /\ response.total_crimes = 0
    /\ response.stats_by_location = <<>>

\* C21: no analytics operation, answered or refused, changes the reports,
\* the locations or the users of the store.
C21_AnalyticsReadOnly ==
    [][ response'.op \in AnalyticsOperations
        => UNCHANGED <<reports, locations, users>> ]_vars

\* An analysis answered over a store that holds reports, a deleted location
\* and an account registered after the seed.
C21_Witness ==
    /\ response.op = "get_hotspot_analysis"
    /\ response.status = 200
    /\ now > 0
    /\ reports # <<>>
    /\ Len(users) > Len(SeedUsers)
    /\ \E l \in LocationIds : locations[l].deleted_at # NULL

\* The bucket counts and the percentage_change values of a trend response.
TrendCounts == [i \in DOMAIN response.trends |-> response.trends[i].count]

TrendChanges ==
    [i \in DOMAIN response.trends |-> response.trends[i].percentage_change]

MatchingBoth ==
    { i \in Live :
        /\ reports[i].created_at >= response.start_date
        /\ reports[i].created_at <= response.end_date
        /\ (input.location_id = NULL \/ reports[i].location_id = input.location_id)
        /\ (input.crime_type = None \/ reports[i].category = input.crime_type) }

\* C23: get_crime_statistics without start_date and end_date covers the 30
\* days that end now; the reports it counts are those that satisfy the
\* location filter and the crime-type filter together, and a filter left out
\* excludes no report.
C23_DefaultWindowAndFilters ==
    IsStats =>
        /\ (input.start_date = NULL /\ input.end_date = NULL)
              => (response.end_date = now /\ response.start_date = now - 30)
        /\ response.total_crimes = Cardinality(MatchingBoth)
        /\ CountSum(response.stats_by_type) = Cardinality(MatchingBoth)

\* No argument given on day 31: of two live thefts, one of day 0 at
\* location 2 and one of day 31, the window from day 1 counts the second.
C23_Witness ==
    /\ IsStats
    /\ input = [start_date |-> NULL, end_date |-> NULL,
                location_id |-> NULL, crime_type |-> None]
    /\ now = MaxDay
    /\ response.start_date = MaxDay - 30
    /\ \E i, j \in Live : /\ reports[i].created_at = 0
                          /\ reports[i].location_id = 2
                          /\ reports[j].created_at = MaxDay
    /\ response.total_crimes = 1

\* C24: whatever creations and soft-deletions commit between the queries of
\* a statistics request, every percentage of the response lies within 0 and
\* 100 and the counts of each grouping sum to total_crimes.
C24_ConsistentUnderWrites ==
    IsStats =>
        \A G \in Groupings(response) :
            /\ CountSum(G) = response.total_crimes
            /\ \A e \in G : e.percentage >= 0 /\ e.percentage <= 10000

IsDashboard == response.op = "get_dashboard_summary" /\ response.status = 200

\* C25: whatever writes commit between the queries of a dashboard request,
\* the summary has resolved_reports + pending_reports <= total_reports,
\* today_reports <= total_reports, high_priority_reports <= total_reports,
\* active_users <= total_users and every top_crime_types percentage within
\* 0 and 100.
C25_SummaryCountsBounded ==
    IsDashboard =>
        /\ response.resolved_reports + response.pending_reports
              <= response.total_reports
        /\ response.today_reports <= response.total_reports
        /\ response.high_priority_reports <= response.total_reports
        /\ response.active_users <= response.total_users
        /\ \A k \in DOMAIN response.top_crime_types :
              /\ response.top_crime_types[k].percentage >= 0
              /\ response.top_crime_types[k].percentage <= 10000

\* The label a comes before the label b in calendar order: year, then month,
\* then day.
LabelBefore(a, b) ==
    \E k \in DOMAIN a :
        /\ a[k] < b[k]
        /\ \A j \in 1..(k - 1) : a[j] = b[j]

\* C26: in a trend series of any of the four periods the labels of the
\* points are pairwise distinct and strictly increasing in calendar order.
C26_LabelsIdentifyBuckets ==
    IsTrend =>
        \A i, j \in DOMAIN response.trends :
            i < j => /\ response.trends[i].period # response.trends[j].period
                     /\ LabelBefore(response.trends[i].period,
                                    response.trends[j].period)

\* C27: every point of a trend series counts at least one report; the
\* first point has no percentage_change and every later point has one,
\* computed against the point before it in the series, whatever calendar
\* periods lie between the two.
C27_NoEmptyBuckets ==
    IsTrend =>
        LET t == response.trends
        IN  \A i \in DOMAIN t :
              /\ t[i].count >= 1
              /\ t[i].percentage_change = NoChange <=> i = 1
              /\ i > 1 => t[i].percentage_change =
                             Some(PercentageChange(t[i].count, t[i - 1].count))

\* The weekly series of a report of day 0 and a report of day 31: two
\* points, four weeks apart, with no point for the weeks between them.
C27_Witness ==
    /\ IsTrend
    /\ response.period = "weekly"
    /\ now = TickDays
    /\ \E i, j \in Live : reports[i].created_at = 0 /\ reports[j].created_at = TickDays
    /\ Len(response.trends) = 2
    /\ response.trends[2].percentage_change = Some(0)

IsPerformance ==
    response.op = "get_performance_analytics" /\ response.status = 200

\* C29: total_resolved_cases is the number of live reports that are resolved
\* or closed, those whose updated_at equals created_at included, and when it
\* is positive the fastest response time is at most the median and the
\* average, and these are at most the slowest.
C29_ResolvedCasesAndOrder ==
    IsPerformance =>
        /\ response.total_resolved_cases =
              Cardinality({i \in Live : reports[i].status \in {"resolved", "closed"}})
        /\ response.total_resolved_cases > 0 =>
              /\ response.fastest_response_time_hours
                    <= response.median_response_time_hours
              /\ response.median_response_time_hours
                    <= response.slowest_response_time_hours
              /\ response.fastest_response_time_hours
                    <= response.average_response_time_hours
              /\ response.average_response_time_hours
                    <= response.slowest_response_time_hours

====
